---------------------------- MODULE Spec2Model ----------------------------
(***************************************************************************)
(* TeamForge: the skill matcher, the two agent tools and the two agents    *)
(* (rule-based runBoundedAgent, LLM-driven runOpenAIAgent).                *)
(*                                                                         *)
(* Text is modelled as sequences of one-character strings so that          *)
(* lowercasing, substring search and normalisation are computed, not       *)
(* assumed.  Cosine similarities are kept exact: a score is the pair       *)
(* (dot, normA*normB) and is turned into ten-thousandths by toFixed(4).    *)
(***************************************************************************)
EXTENDS Integers, Sequences, FiniteSets, TLC

(***************************************************************************)
(* Bounds of the model.                                                    *)
(***************************************************************************)
\* the longest tool_calls list one assistant message carries
MaxToolCallsPerMessage == 3

(***************************************************************************)
(* Generic helpers.                                                        *)
(***************************************************************************)
None == <<>>
Some(x) == <<x>>
IsSome(o) == Len(o) = 1
Val(o) == o[1]

Undefined == "undefined"

\* A JavaScript object is a record; an absent property is absent from its domain
Has(obj, f) == f \in DOMAIN obj
StrField(obj, f) == IF f \in DOMAIN obj THEN obj[f] ELSE Undefined

\* JavaScript truthiness of a string-or-undefined value
Truthy(x) == x # Undefined /\ x # ""

Min(a, b) == IF a <= b THEN a ELSE b

Range(s) == { s[i] : i \in 1..Len(s) }

\* Array.prototype.slice(0, n) for n >= 0
Take(s, n) == SubSeq(s, 1, Min(n, Len(s)))

(***************************************************************************)
(* Characters and strings.                                                 *)
(***************************************************************************)
UpperChars == <<"A","B","C","D","E","F","G","H","I","J","K","L","M",
                "N","O","P","Q","R","S","T","U","V","W","X","Y","Z">>
LowerChars == <<"a","b","c","d","e","f","g","h","i","j","k","l","m",
                "n","o","p","q","r","s","t","u","v","w","x","y","z">>
DigitChars == {"0","1","2","3","4","5","6","7","8","9"}
SpaceChars == {" ", "\t", "\n"}

\* the lowercase letter of each uppercase letter
LowerOf == [c \in Range(UpperChars) |->
               LowerChars[CHOOSE i \in 1..Len(UpperChars) : UpperChars[i] = c]]

ToLowerChar(c) == IF c \in DOMAIN LowerOf THEN LowerOf[c] ELSE c

\* String.prototype.toLowerCase
ToLowerCase(s) == [i \in 1..Len(s) |-> ToLowerChar(s[i])]

\* String.prototype.includes
Includes(hay, needle) ==
    \E i \in 0..(Len(hay) - Len(needle)) :
        SubSeq(hay, i + 1, i + Len(needle)) = needle

\* /[^a-z0-9\s]/g replaced by ''
KeptChars == Range(LowerChars) \cup DigitChars \cup SpaceChars
IsKeptChar(c) == c \in KeptChars
StripPunctuation(s) == SelectSeq(s, IsKeptChar)

\* /\s+/g replaced by ' '
RECURSIVE CollapseWhitespace(_)
CollapseWhitespace(s) ==
    IF s = <<>> THEN <<>>
    ELSE IF Head(s) \in SpaceChars
         THEN IF Len(s) > 1 /\ s[2] \in SpaceChars
              THEN CollapseWhitespace(Tail(s))
              ELSE <<" ">> \o CollapseWhitespace(Tail(s))
         ELSE <<Head(s)>> \o CollapseWhitespace(Tail(s))

\* String.prototype.trim
RECURSIVE TrimStart(_)
TrimStart(s) ==
    IF s # <<>> /\ Head(s) \in SpaceChars THEN TrimStart(Tail(s)) ELSE s

RECURSIVE TrimEnd(_)
TrimEnd(s) ==
    IF s # <<>> /\ s[Len(s)] \in SpaceChars
    THEN TrimEnd(SubSeq(s, 1, Len(s) - 1))
    ELSE s

Trim(s) == TrimEnd(TrimStart(s))

(***************************************************************************)
(* skillMatcher: normaliseSkill, buildVocabulary, encodeVector,            *)
(* cosineSimilarity, rankUsersBySkills.                                    *)
(***************************************************************************)
\* mutant: whitespace is collapsed before the punctuation is stripped
normaliseSkill_CollapseFirst(skill) ==
    Trim(StripPunctuation(CollapseWhitespace(ToLowerCase(skill))))

normaliseSkill(skill) ==
    Trim(CollapseWhitespace(StripPunctuation(ToLowerCase(skill))))

\* The vocabulary Map is the sequence of its keys in insertion order:
\* the index of a term is its position minus one.
RECURSIVE VocabAdd(_, _)
VocabAdd(vocab, skills) ==
    IF skills = <<>> THEN vocab
    ELSE LET norm == normaliseSkill(Head(skills))
         IN  VocabAdd(IF norm # <<>> /\ norm \notin Range(vocab)
                      THEN Append(vocab, norm)
                      ELSE vocab,
                      Tail(skills))

RECURSIVE VocabAddAll(_, _)
VocabAddAll(vocab, allSkillSets) ==
    IF allSkillSets = <<>> THEN vocab
    ELSE VocabAddAll(VocabAdd(vocab, Head(allSkillSets)), Tail(allSkillSets))

buildVocabulary(allSkillSets) == VocabAddAll(<<>>, allSkillSets)

\* Float32Array of 0.0 / 1.0 as a sequence of 0 / 1
encodeVector(skills, vocab) ==
    LET norms == { normaliseSkill(skills[k]) : k \in 1..Len(skills) }
    IN  [i \in 1..Len(vocab) |-> IF vocab[i] \in norms THEN 1 ELSE 0]

RECURSIVE SumProd(_, _, _)
SumProd(a, b, i) ==
    IF i > Len(a) THEN 0 ELSE a[i] * b[i] + SumProd(a, b, i + 1)

\* mutant: the share of the query's terms that the candidate covers
cosineSimilarity_QueryCoverage(a, b) ==
    LET dot   == SumProd(a, b, 1)
        normA == SumProd(a, a, 1)
    IN  IF normA = 0
        THEN [dot |-> 0, den2 |-> 1]
        ELSE [dot |-> dot, den2 |-> normA * normA]

\* mutant: a zero denominator gives the score 1
cosineSimilarity_ZeroScoresOne(a, b) ==
    LET dot   == SumProd(a, b, 1)
        normA == SumProd(a, a, 1)
        normB == SumProd(b, b, 1)
    IN  IF normA * normB = 0
        THEN [dot |-> 1, den2 |-> 1]
        ELSE [dot |-> dot, den2 |-> normA * normB]

\* The score dot / (sqrt(normA) * sqrt(normB)) is kept exact as the pair
\* (dot, normA * normB); a zero denominator gives the score 0.
cosineSimilarity(a, b) ==
    LET dot   == SumProd(a, b, 1)
        normA == SumProd(a, a, 1)
        normB == SumProd(b, b, 1)
    IN  IF normA * normB = 0
        THEN [dot |-> 0, den2 |-> 1]
        ELSE [dot |-> dot, den2 |-> normA * normB]

\* floor(sqrt(n)) by bisection on lo..hi (lo*lo <= n)
RECURSIVE ISqrtIn(_, _, _)
ISqrtIn(n, lo, hi) ==
    IF lo >= hi THEN lo
    ELSE LET mid == (lo + hi + 1) \div 2
         IN  IF mid * mid <= n THEN ISqrtIn(n, mid, hi)
                               ELSE ISqrtIn(n, lo, mid - 1)

\* parseFloat(score.toFixed(4)) in ten-thousandths: the integer r nearest to
\* 10000 * dot / sqrt(den2), i.e. the greatest r with
\* (2r - 1)^2 * den2 <= (20000 * dot)^2.  The quotient is formed in two
\* parts so that every intermediate value stays below 2^31.
ToFixed4(score) ==
    LET K  == 20000 * score.dot
        M  == score.den2
        X  == K * (K \div M) + (K * (K % M)) \div M
    IN  (ISqrtIn(X, 0, 20000) + 1) \div 2

\* mutant: the comparator looks at the similarity only
RankBefore_SimilarityOnly(a, b) == a.cosineSimilarity > b.cosineSimilarity

\* The comparator of rankUsersBySkills' sort: a goes strictly before b.
\* cosineSimilarity here is the rounded value stored in the ScoredMatch.
RankBefore(a, b) ==
    \/ a.cosineSimilarity > b.cosineSimilarity
    \/ /\ a.cosineSimilarity = b.cosineSimilarity
       /\ a.matchScore > b.matchScore
    \/ /\ a.cosineSimilarity = b.cosineSimilarity
       /\ a.matchScore = b.matchScore
       /\ a.totalSkills > b.totalSkills

\* Array.prototype.sort is stable: an element is inserted after the
\* elements it does not strictly precede.
RECURSIVE RankInsert(_, _)
RankInsert(x, sorted) ==
    IF sorted = <<>> THEN <<x>>
    ELSE IF RankBefore(x, Head(sorted))
         THEN <<x>> \o sorted
         ELSE <<Head(sorted)>> \o RankInsert(x, Tail(sorted))

RECURSIVE RankSort(_)
RankSort(s) ==
    IF s = <<>> THEN <<>>
    ELSE RankInsert(s[Len(s)], RankSort(SubSeq(s, 1, Len(s) - 1)))

\* mutant: the matched skills are reported in their normalised spelling
ScoreUser_NormalisedSpelling(user, normalisedQuery, vocab, queryVec) ==
    LET userVec         == encodeVector(user.skills, vocab)
        score           == cosineSimilarity(queryVec, userVec)
        InQuery(s)      == normaliseSkill(s) \in normalisedQuery
        matchedSkills   == SelectSeq(user.skills, InQuery)
    IN  [ userId           |-> user.userId,
          name             |-> user.name,
          skills           |-> user.skills,
          availability     |-> user.availability,
          matchedSkills    |-> [i \in 1..Len(matchedSkills) |->
                                   normaliseSkill(matchedSkills[i])],
          cosineSimilarity |-> ToFixed4(score),
          matchScore       |-> Len(matchedSkills),
          totalSkills      |-> Len(user.skills) ]

\* One element of `scored`: the ScoredMatch of one candidate.
\* (email and bio are carried through unchanged by the code and are left out.)
ScoreUser(user, normalisedQuery, vocab, queryVec) ==
    LET userVec         == encodeVector(user.skills, vocab)
        score           == cosineSimilarity(queryVec, userVec)
        InQuery(s)      == normaliseSkill(s) \in normalisedQuery
        matchedSkills   == SelectSeq(user.skills, InQuery)
    IN  [ userId           |-> user.userId,
          name             |-> user.name,
          skills           |-> user.skills,
          availability     |-> user.availability,
          matchedSkills    |-> matchedSkills,
          cosineSimilarity |-> ToFixed4(score),
          matchScore       |-> Len(matchedSkills),
          totalSkills      |-> Len(user.skills) ]

\* minScore is given in ten-thousandths (0.1 is 1000)
rankUsersBySkills(querySkills, users, topN, minScore) ==
    IF Len(querySkills) = 0 \/ Len(users) = 0 THEN <<>>
    ELSE LET allSkillSets == <<querySkills>> \o [i \in 1..Len(users) |-> users[i].skills]
             vocab        == buildVocabulary(allSkillSets)
             queryVec     == encodeVector(querySkills, vocab)
             normalisedQuery == { normaliseSkill(querySkills[i]) :
                                      i \in 1..Len(querySkills) }
             scored       == [i \in 1..Len(users) |->
                                 ScoreUser(users[i], normalisedQuery, vocab, queryVec)]
             AboveMin(m)  == m.cosineSimilarity >= minScore
         IN  Take(RankSort(SelectSeq(scored, AboveMin)), topN)

(***************************************************************************)
(* The storage collaborator: the users and projects collections, in        *)
(* natural (insertion) order.                                              *)
(***************************************************************************)
S_Go  == <<"G","o">>
S_Vue == <<"V","u","e">>
S_Cpp == <<"C","+","+">>
S_Sql == <<"S","Q","L">>

UsersCollection ==
    << [ userId |-> "u1", name |-> "Ana",  skills |-> <<S_Go, S_Vue>>,
         availability |-> "available" ],
       [ userId |-> "u2", name |-> "Ben",  skills |-> <<S_Vue, S_Cpp>>,
         availability |-> "available" ],
       [ userId |-> "u3", name |-> "Cleo", skills |-> <<S_Sql>>,
         availability |-> "busy" ],
       [ userId |-> "u4", name |-> "Dev",  skills |-> <<S_Vue>>,
         availability |-> "part-time" ] >>

ProjectsCollection ==
    << [ projectId |-> "p1", title |-> "Forge" ] >>

UserIds == { UsersCollection[i].userId : i \in 1..Len(UsersCollection) }

\* User.findById(id).lean(): the document or null
FindUserById(id) ==
    LET Is(u) == u.userId = id
        hits  == SelectSeq(UsersCollection, Is)
    IN  IF hits = <<>> THEN None ELSE Some(Head(hits))

\* Project.findById(id).lean(): the document or null
FindProjectById(id) ==
    LET Is(p) == p.projectId = id
        hits  == SelectSeq(ProjectsCollection, Is)
    IN  IF hits = <<>> THEN None ELSE Some(Head(hits))

\* A thrown Error / a resolved value
Throw(msg) == [ok |-> FALSE, error |-> msg]
Ok(v)      == [ok |-> TRUE, value |-> v]

StorageError == "storage unavailable"

(***************************************************************************)
(* Tool: match_users_by_skills.                                            *)
(***************************************************************************)
\* new RegExp(escaped(s), 'i').test(userSkill): the escaped pattern matches
\* the literal text of s anywhere in userSkill, ignoring case
RegExpTestI(s, userSkill) == Includes(ToLowerCase(userSkill), ToLowerCase(s))

\* mutant: the filter has no _id condition
MongoFilterMatches_NoExclusion(user, skills, excludeUserId, availabilityFilter) ==
    /\ \E i \in 1..Len(user.skills) : \E k \in 1..Len(skills) :
            RegExpTestI(skills[k], user.skills[i])
    /\ Truthy(availabilityFilter) => user.availability = availabilityFilter

\* the Stage 1 filter document applied to one user
MongoFilterMatches(user, skills, excludeUserId, availabilityFilter) ==
    /\ \E i \in 1..Len(user.skills) : \E k \in 1..Len(skills) :
            RegExpTestI(skills[k], user.skills[i])
    /\ Truthy(excludeUserId) => user.userId # excludeUserId
    /\ Truthy(availabilityFilter) => user.availability = availabilityFilter

\* Query.limit(n): 0 is "no limit"
LimitDocs(docs, n) == IF n = 0 THEN docs ELSE Take(docs, n)

\* input: a record with the optional fields skills, limit, excludeUserId,
\* availabilityFilter (an absent field is absent from the record's domain).
\* storageUp: whether the storage collaborator answers this call.
\* useEmbeddings is never set by either agent, so Stage 2 is the binary ranker.
matchUsersBySkills(input, storageUp) ==
    LET skills == IF Has(input, "skills") THEN input.skills ELSE <<>>
        limit  == IF Has(input, "limit") THEN input.limit ELSE 5
        excludeUserId      == StrField(input, "excludeUserId")
        availabilityFilter == StrField(input, "availabilityFilter")
    IN  IF ~Has(input, "skills") \/ Len(skills) = 0
        THEN Throw("match_users_by_skills requires at least one skill")
        ELSE IF ~storageUp THEN Throw(StorageError)
        ELSE
        LET preFilterLimit == Min(limit * 5, 200)
            Hit(u)    == MongoFilterMatches(u, skills, excludeUserId, availabilityFilter)
            rawUsers  == LimitDocs(SelectSeq(UsersCollection, Hit), preFilterLimit)
        IN  IF Len(rawUsers) = 0
            THEN Ok([ matches |-> <<>>, searchedSkills |-> skills,
                      totalFound |-> 0, algorithm |-> "cosine-binary" ])
            ELSE LET rankedMatches == rankUsersBySkills(skills, rawUsers, limit, 1000)
                 IN  Ok([ matches |-> rankedMatches, searchedSkills |-> skills,
                          totalFound |-> Len(rankedMatches),
                          algorithm |-> "cosine-binary" ])

(***************************************************************************)
(* Tool: draft_intro_message.                                              *)
(***************************************************************************)
\* input: a record with fromUserId, toUserId and the optional projectId.
\* The body is template text over the same fields as the subject and is
\* left out; generatedAt is a timestamp and is left out.
draftIntroMessage(input, storageUp) ==
    LET fromUserId == StrField(input, "fromUserId")
        toUserId   == StrField(input, "toUserId")
        projectId  == StrField(input, "projectId")
    IN
    IF ~Truthy(fromUserId) \/ ~Truthy(toUserId)
    THEN Throw("draft_intro_message requires fromUserId and toUserId")
    ELSE IF ~storageUp THEN Throw(StorageError)
    ELSE
    LET sender    == FindUserById(fromUserId)
        recipient == FindUserById(toUserId)
    IN  IF sender = None THEN Throw("Sender user not found")
        ELSE IF recipient = None THEN Throw("Recipient user not found")
        ELSE
        LET project == IF Truthy(projectId) THEN FindProjectById(projectId) ELSE None
            projectTitle == IF project = None THEN Undefined ELSE Val(project).title
        IN  Ok([ subject       |-> IF Truthy(projectTitle)
                                   THEN <<"Collaboration Invitation", projectTitle>>
                                   ELSE <<"Team Collaboration Invitation from",
                                          Val(sender).name>>,
                 recipientId   |-> toUserId,
                 recipientName |-> Val(recipient).name,
                 senderName    |-> Val(sender).name,
                 projectTitle  |-> projectTitle ])

(***************************************************************************)
(* State of one agent invocation.                                          *)
(***************************************************************************)
VARIABLES
    agent,            \* "bounded" (runBoundedAgent) or "openai" (runOpenAIAgent)
    apiKeySet,        \* process.env.OPENAI_API_KEY is set
    req,              \* the AgentInput / AgentRequest
    pc,               \* where the invocation stands
    toolCallsMade,    \* let toolCallsMade
    toolCallLog,      \* runBoundedAgent: const toolCallLog
    confirmedMatches, \* runOpenAIAgent: const confirmedMatches
    finalMatches,     \* runOpenAIAgent: let finalMatches (None is null)
    draftMessage,     \* runOpenAIAgent: let draftMessage (None is null)
    messages,         \* runOpenAIAgent: the conversation
    turn,             \* runOpenAIAgent: the for-loop variable
    toolCalls,        \* assistantMessage.tool_calls being iterated
    tcIdx,            \* position of the for-of loop in toolCalls
    pending,          \* the tool call being awaited (None: nothing awaited)
    response,         \* the record the invocation returned (None: not yet)
    escaped,          \* the exception that left the invocation (None: none)
    extracted,        \* history: extractSkillsFromMessage has run
    execLog,          \* history: the tool functions entered, in order
    dispatchLog,      \* history: the dispatchTool calls, in order
    completionLog,    \* history: the chat completions requested, in order
    rankArgs,         \* the arguments of a rankUsersBySkills call (None: no call)
    rankResult,       \* what that call returned (None: not yet)
    embeddingCache,   \* embeddingMatcher: the process-wide Map, in insertion order
    embedCalls,       \* the generateSkillEmbedding calls started, in order
    embedRank,        \* the rankUsersWithEmbeddings invocation (None: none yet)
    embedResult,      \* how that invocation settled (None: not yet)
    directCall,       \* a tool function called on its own (None: no call)
    directPc,         \* where that call stands
    directTrace,      \* the collaborators that call has invoked, in order
    directResult,     \* how that call settled (None: not yet)
    normInput,        \* the argument of a normaliseSkill call (None: no call)
    normOutput        \* what normaliseSkill returned, once and applied again

vars == << agent, apiKeySet, req, pc, toolCallsMade, toolCallLog, confirmedMatches,
           finalMatches, draftMessage, messages, turn, toolCalls, tcIdx, pending,
           response, escaped, extracted, execLog, dispatchLog, completionLog,
           rankArgs, rankResult, embeddingCache, embedCalls, embedRank, embedResult,
           directCall, directPc, directTrace, directResult, normInput, normOutput >>

\* the state of the tool and normaliseSkill calls made on their own
directVars == << directCall, directPc, directTrace, directResult, normInput,
                 normOutput >>

\* the state of the matcher calls, which the agents leave alone
matcherVars == << rankArgs, rankResult, embeddingCache, embedCalls, embedRank, embedResult >>

openaiVars == << confirmedMatches, finalMatches, draftMessage, messages, turn,
                 toolCalls, tcIdx, dispatchLog, completionLog >>

(***************************************************************************)
(* runBoundedAgent.                                                        *)
(***************************************************************************)
BOUNDED_MAX_TOOL_CALLS == 2

KNOWN_SKILLS == <<
    <<"r","e","a","c","t">>,
    <<"r","e","a","c","t"," ","n","a","t","i","v","e">>,
    <<"n","o","d","e">>,
    <<"n","o","d","e","j","s">>,
    <<"e","x","p","r","e","s","s">>,
    <<"t","y","p","e","s","c","r","i","p","t">>,
    <<"j","a","v","a","s","c","r","i","p","t">>,
    <<"p","y","t","h","o","n">>,
    <<"d","j","a","n","g","o">>,
    <<"f","l","a","s","k">>,
    <<"f","a","s","t","a","p","i">>,
    <<"m","o","n","g","o","d","b">>,
    <<"p","o","s","t","g","r","e","s","q","l">>,
    <<"m","y","s","q","l">>,
    <<"r","e","d","i","s">>,
    <<"d","o","c","k","e","r">>,
    <<"k","u","b","e","r","n","e","t","e","s">>,
    <<"a","w","s">>,
    <<"g","c","p">>,
    <<"a","z","u","r","e">>,
    <<"g","r","a","p","h","q","l">>,
    <<"r","e","s","t">>,
    <<"f","i","g","m","a">>,
    <<"f","l","u","t","t","e","r">>,
    <<"s","w","i","f","t">>,
    <<"k","o","t","l","i","n">>,
    <<"j","a","v","a">>,
    <<"c","+","+">>,
    <<"r","u","s","t">>,
    <<"g","o">>,
    <<"v","u","e">>,
    <<"a","n","g","u","l","a","r">>,
    <<"s","v","e","l","t","e">>,
    <<"n","e","x","t">>,
    <<"n","e","x","t","j","s">>,
    <<"t","a","i","l","w","i","n","d">>,
    <<"c","s","s">>,
    <<"h","t","m","l">>,
    <<"u","i">>,
    <<"u","x">>,
    <<"d","e","v","o","p","s">>,
    <<"m","a","c","h","i","n","e"," ","l","e","a","r","n","i","n","g">>,
    <<"m","l">>,
    <<"a","i">>,
    <<"d","a","t","a"," ","s","c","i","e","n","c","e">>,
    <<"t","e","n","s","o","r","f","l","o","w">>,
    <<"p","y","t","o","r","c","h">> >>

extractSkillsFromMessage(message) ==
    LET lower    == ToLowerCase(message)
        Found(k) == Includes(lower, k)
    IN  SelectSeq(KNOWN_SKILLS, Found)

\* buildReasoning: which of its two texts it returns
buildReasoning(message, skillsFound) ==
    IF Len(skillsFound) = 0 THEN "could not detect skills, please mention skills"
    ELSE "identified skills, will search"

\* executeToolCall, lines 85-90: the hard cap check
BoundedCapExceeded(made) == made >= BOUNDED_MAX_TOOL_CALLS

\* `if (approvedMessageTo)`
TakesPathA(input) == Truthy(StrField(input, "approvedMessageTo"))

\* mutant: the emptiness test never holds
NoSkillsRecognised_Never(extractedSkills) == Len(extractedSkills) < 0

\* `if (extractedSkills.length === 0)`
NoSkillsRecognised(extractedSkills) == Len(extractedSkills) = 0

\* mutant: sender and recipient are swapped
PathADraftInput_Swapped(input) ==
    [ fromUserId |-> input.approvedMessageTo,
      toUserId   |-> input.userId,
      projectId  |-> StrField(input, "projectId") ]

\* the tool input of Path A
PathADraftInput(input) ==
    [ fromUserId |-> input.userId,
      toUserId   |-> input.approvedMessageTo,
      projectId  |-> StrField(input, "projectId") ]

\* the tool input of Path B
PathBMatchInput(input, extractedSkills) ==
    [ skills |-> extractedSkills, limit |-> 5, excludeUserId |-> input.userId ]

\* the catch block's output
BoundedErrorOutput(made, log, message) ==
    [ success          |-> FALSE,
      reasoning        |-> "An error occurred during agent execution.",
      toolCallsMade    |-> made,
      awaitingApproval |-> FALSE,
      toolCallLog      |-> log,
      error            |-> message ]

\* Path B's output when no skill is recognised
NoSkillsOutput(message, log) ==
    [ success          |-> FALSE,
      reasoning        |-> buildReasoning(message, <<>>),
      toolCallsMade    |-> 0,
      awaitingApproval |-> FALSE,
      toolCallLog      |-> log,
      error            |-> "No recognizable skills found in your message." ]

\* mutant: Path A returns an empty log
PathAOutput_NoLog(made, log, draft) ==
    [ success          |-> TRUE,
      reasoning        |-> "approved, drafting intro",
      toolCallsMade    |-> made,
      draftMessage     |-> Some(draft),
      awaitingApproval |-> FALSE,
      toolCallLog      |-> <<>> ]

\* Path A's output once the draft is there
PathAOutput(made, log, draft) ==
    [ success          |-> TRUE,
      reasoning        |-> "approved, drafting intro",
      toolCallsMade    |-> made,
      draftMessage     |-> Some(draft),
      awaitingApproval |-> FALSE,
      toolCallLog      |-> log ]

\* mutant: the empty result also asks for approval
PathBOutput_AlwaysAwaits(input, made, log, matchResult) ==
    [ success          |-> TRUE,
      reasoning        |-> <<buildReasoning(input.message,
                                            extractSkillsFromMessage(input.message))>>,
      toolCallsMade    |-> made,
      matches          |-> matchResult.matches,
      draftMessage     |-> None,
      awaitingApproval |-> TRUE,
      toolCallLog      |-> log ]

\* Path B's output once the matches are there
PathBOutput(input, made, log, matchResult) ==
    LET extractedSkills == extractSkillsFromMessage(input.message)
        reasoning       == buildReasoning(input.message, extractedSkills)
    IN  IF Len(matchResult.matches) = 0
        THEN [ success          |-> TRUE,
               reasoning        |-> <<reasoning, "no users were found">>,
               toolCallsMade    |-> made,
               matches          |-> <<>>,
               awaitingApproval |-> FALSE,
               toolCallLog      |-> log ]
        ELSE LET topMatch == matchResult.matches[1]
             IN  [ success          |-> TRUE,
                   reasoning        |-> <<reasoning>>,
                   toolCallsMade    |-> made,
                   matches          |-> matchResult.matches,
                   draftMessage     |-> None,
                   awaitingApproval |-> TRUE,
                   approvalPrompt   |-> [ found         |-> Len(matchResult.matches),
                                          skills        |-> extractedSkills,
                                          bestMatch     |-> topMatch.name,
                                          matchScore    |-> topMatch.matchScore,
                                          matchedSkills |-> topMatch.matchedSkills ],
                   toolCallLog      |-> log ]

\* executeToolCall up to its await: the cap check, then toolCallsMade++
BoundedBeginToolCall(tool, toolInput) ==
    IF BoundedCapExceeded(toolCallsMade)
    THEN /\ response' = Some(BoundedErrorOutput(toolCallsMade, toolCallLog,
                                               "[BoundedAgent] Tool call limit exceeded."))
         /\ pc' = "done"
         /\ UNCHANGED << toolCallsMade, pending, execLog >>
    ELSE /\ toolCallsMade' = toolCallsMade + 1
         /\ pending' = Some([tool |-> tool, input |-> toolInput])
         /\ execLog' = Append(execLog, [ tool |-> tool, input |-> toolInput,
                                         madeBefore |-> toolCallsMade, turn |-> 0,
                                         callId |-> <<0, 1>> ])
         /\ pc' = "b_await_tool"
         /\ UNCHANGED response

\* Path A: the caller names an approved recipient
BoundedPathA ==
    /\ agent = "bounded" /\ pc = "start"
    /\ TakesPathA(req)
    /\ BoundedBeginToolCall("draft_intro_message", PathADraftInput(req))
    /\ UNCHANGED << agent, apiKeySet, req, toolCallLog, escaped, extracted >>
    /\ UNCHANGED openaiVars
    /\ UNCHANGED matcherVars
    /\ UNCHANGED directVars

\* Path B, no skill recognised: the clarification output, no tool call
BoundedNoSkills ==
    /\ agent = "bounded" /\ pc = "start"
    /\ ~TakesPathA(req)
    /\ NoSkillsRecognised(extractSkillsFromMessage(req.message))
    /\ extracted' = TRUE
    /\ response' = Some(NoSkillsOutput(req.message, toolCallLog))
    /\ pc' = "done"
    /\ UNCHANGED << agent, apiKeySet, req, toolCallsMade, toolCallLog, pending,
                    escaped, execLog >>
    /\ UNCHANGED openaiVars
    /\ UNCHANGED matcherVars
    /\ UNCHANGED directVars

\* Path B: tool call 1, match_users_by_skills
BoundedMatch ==
    /\ agent = "bounded" /\ pc = "start"
    /\ ~TakesPathA(req)
    /\ ~NoSkillsRecognised(extractSkillsFromMessage(req.message))
    /\ extracted' = TRUE
    /\ BoundedBeginToolCall("match_users_by_skills",
                            PathBMatchInput(req, extractSkillsFromMessage(req.message)))
    /\ UNCHANGED << agent, apiKeySet, req, toolCallLog, escaped >>
    /\ UNCHANGED openaiVars
    /\ UNCHANGED matcherVars
    /\ UNCHANGED directVars

\* the awaited tool settles: executeToolCall logs and returns the output and
\* the path builds its output, or the tool throws and the catch block answers
BoundedToolSettles ==
    /\ agent = "bounded" /\ pc = "b_await_tool"
    /\ \E storageUp \in BOOLEAN :
        LET call == Val(pending)
            res  == IF call.tool = "match_users_by_skills"
                    THEN matchUsersBySkills(call.input, storageUp)
                    ELSE draftIntroMessage(call.input, storageUp)
            log  == Append(toolCallLog, [ tool |-> call.tool, input |-> call.input,
                                          output |-> res.value ])
        IN  IF res.ok
            THEN /\ toolCallLog' = log
                 /\ response' = Some(IF call.tool = "draft_intro_message"
                                     THEN PathAOutput(toolCallsMade, log, res.value)
                                     ELSE PathBOutput(req, toolCallsMade, log, res.value))
            ELSE /\ toolCallLog' = toolCallLog
                 /\ response' = Some(BoundedErrorOutput(toolCallsMade, toolCallLog,
                                                        res.error))
    /\ pending' = None
    /\ pc' = "done"
    /\ UNCHANGED << agent, apiKeySet, req, toolCallsMade, escaped, extracted, execLog >>
    /\ UNCHANGED openaiVars
    /\ UNCHANGED matcherVars
    /\ UNCHANGED directVars

(***************************************************************************)
(* runOpenAIAgent.                                                         *)
(***************************************************************************)
MAX_TOOL_CALLS == 2

\* `turn < 2` of the agentic loop
MAX_TURNS == 2

VALID_AVAILABILITY == {"available", "busy", "part-time"}

toAvailabilityFilter(raw) == IF raw \in VALID_AVAILABILITY THEN raw ELSE Undefined

\* isFunctionToolCall
isFunctionToolCall(tc) == tc.type = "function"

\* mutant: the fallback is returned only for null, text that does not parse
\* yields an object carrying the text as its fields
safeParseJSON_KeepsGarbage(raw, fallback) ==
    IF raw = None THEN fallback
    ELSE IF Val(raw).valid THEN Val(raw).value
    ELSE [ to_user_id |-> "u2", skills |-> <<S_Vue>>, reasoning |-> "garbage" ]

\* A JSON text is [valid |-> FALSE] (does not parse), or
\* [valid |-> TRUE, value |-> v] (parses to v); None is null.
safeParseJSON(raw, fallback) ==
    IF raw = None THEN fallback
    ELSE IF Val(raw).valid THEN Val(raw).value ELSE fallback

EmptyObject == [x \in {} |-> Undefined]

\* mutant: the recipient is validated against storage, not against the matches
validateRecipientId_AnyStoredUser(toUserId, confirmed) ==
    FindUserById(toUserId) # None

\* mutant: the guard only asks for some recipient id
validateRecipientId_AnyGivenId(toUserId, confirmed) == Truthy(toUserId)

validateRecipientId(toUserId, confirmed) ==
    \E i \in 1..Len(confirmed) : confirmed[i].userId = toUserId

\* mutant: the cap comparison is off by one
CapReached_OffByOne(made) == made > MAX_TOOL_CALLS

\* `toolCallsMade >= MAX_TOOL_CALLS`, at the loop head and before a dispatch
CapReached(made) == made >= MAX_TOOL_CALLS

\* mutant: the loop head does not look at the cap
LoopContinues_IgnoresCap(t, made) == t < MAX_TURNS

\* the for-loop runs another model turn
LoopContinues(t, made) == t < MAX_TURNS /\ ~CapReached(made)

\* where control goes from the loop head: into the loop body (a completion
\* is requested) or past the loop (the summary is requested)
LoopHead(t, made) == IF LoopContinues(t, made) THEN "loop" ELSE "summary"

\* mutant: an answer without tool calls ends the invocation at once
AfterCompletion_ReturnsEarly(n) == IF n = 0 THEN "done" ELSE "tool_loop"

\* where control goes when the assistant message asks for n tool calls
AfterCompletion(n) == IF n = 0 THEN "summary" ELSE "tool_loop"

\* the content of the synthetic tool message
CapErrorContent ==
    [ error |-> "[BoundedAgent] Tool call limit of 2 reached. No further tool calls permitted this turn." ]

\* dispatchTool up to its await: either it returns { result: null, error }
\* at once, or it calls a tool with an input.
dispatchTool(toolName, args, context) ==
    CASE toolName = "match_users_by_skills" ->
            IF ~Has(args, "skills") \/ Len(args.skills) = 0
            THEN [ kind  |-> "error",
                   error |-> "match_users_by_skills: skills must be a non-empty array" ]
            ELSE [ kind  |-> "call",
                   tool  |-> "match_users_by_skills",
                   input |-> [ skills             |-> args.skills,
                               limit              |-> IF Has(args, "limit")
                                                      THEN args.limit ELSE 5,
                               availabilityFilter |->
                                   toAvailabilityFilter(StrField(args, "availability_filter")),
                               excludeUserId      |-> context.userId ] ]
      [] toolName = "draft_intro_message" ->
            LET toUserId == StrField(args, "to_user_id")
            IN  IF ~validateRecipientId(toUserId, context.confirmedMatches)
                THEN [ kind  |-> "error",
                       error |-> <<"draft_intro_message: to_user_id was not returned by match_users_by_skills",
                                   toUserId>> ]
                ELSE [ kind  |-> "call",
                       tool  |-> "draft_intro_message",
                       input |-> [ fromUserId |-> context.userId,
                                   toUserId   |-> toUserId,
                                   projectId  |-> IF Has(args, "project_id")
                                                  THEN args.project_id
                                                  ELSE context.projectId ] ]
      [] OTHER ->
            [ kind |-> "error", error |-> <<"Unknown tool", toolName>> ]

\* fallbackError
fallbackError(error) ==
    [ success          |-> FALSE,
      reasoning        |-> "An error occurred during agent execution.",
      toolCallsMade    |-> toolCallsMade,
      matches          |-> finalMatches,
      draftMessage     |-> None,
      awaitingApproval |-> FALSE,
      approvalPrompt   |-> Undefined,
      error            |-> Some(error) ]

\* the record returned after the summary completion
SummaryOutput(parsed) ==
    [ success          |-> TRUE,
      reasoning        |-> IF Has(parsed, "reasoning")
                           THEN parsed.reasoning ELSE "Agent completed.",
      toolCallsMade    |-> toolCallsMade,
      matches          |-> finalMatches,
      draftMessage     |-> draftMessage,
      awaitingApproval |-> IF Has(parsed, "awaitingApproval")
                           THEN parsed.awaitingApproval ELSE FALSE,
      approvalPrompt   |-> StrField(parsed, "approvalPrompt"),
      error            |-> None ]

\* JSON.parse('null'): the value null, which is no object
JsonNull == [json |-> "null"]

\* lines 253-268: reading parsed.reasoning of null throws a TypeError inside
\* the try block, which the catch block answers; any other value is read
SummaryResponse(parsed) ==
    IF parsed = JsonNull
    THEN fallbackError("Cannot read properties of null (reading 'reasoning')")
    ELSE SummaryOutput(parsed)

\* What the model may answer: the tool calls one assistant message asks for.
ArgsText(obj) == Some([valid |-> TRUE, value |-> obj])
MalformedText == Some([valid |-> FALSE])

ToolCallChoices ==
    { [ type |-> "custom" ],
      [ type |-> "function", name |-> "match_users_by_skills",
        arguments |-> ArgsText([skills |-> <<S_Vue>>]) ],
      [ type |-> "function", name |-> "match_users_by_skills",
        arguments |-> MalformedText ],
      [ type |-> "function", name |-> "draft_intro_message",
        arguments |-> ArgsText([to_user_id |-> "u2"]) ],
      [ type |-> "function", name |-> "draft_intro_message",
        arguments |-> ArgsText([to_user_id |-> "u1"]) ],
      [ type |-> "function", name |-> "draft_intro_message",
        arguments |-> MalformedText ] }

\* tool_calls of the assistant message of model turn t: each call has its id
AssistantToolCalls(t) ==
    UNION { { [i \in 1..n |-> [call |-> f[i], id |-> <<t, i>>]] :
                f \in [1..n -> ToolCallChoices] } :
            n \in 0..MaxToolCallsPerMessage }

\* What the model may answer to the summary request: message.content
SummaryContents ==
    { None,
      MalformedText,
      ArgsText([ reasoning |-> "summary", awaitingApproval |-> TRUE,
                 approvalPrompt |-> "Which user do you want to message?" ]),
      ArgsText([ reasoning |-> "summary", awaitingApproval |-> FALSE,
                 toolCallsMade |-> 0,
                 matches |-> Some(<< [userId |-> "u9", name |-> "Zed"] >>),
                 draftMessage |-> Some([recipientId |-> "u9", recipientName |-> "Zed"]) ]),
      ArgsText(JsonNull) }

\* const openai = getOpenAIClient(), outside the try block; then the locals
OpenAIStart ==
    /\ agent = "openai" /\ pc = "start"
    /\ IF ~apiKeySet
       THEN /\ escaped' = Some("OPENAI_API_KEY is not set in environment variables.")
            /\ pc' = "done"
            /\ UNCHANGED messages
       ELSE /\ messages' = << [role |-> "system"],
                              [role |-> "user", content |-> req.message] >>
            /\ pc' = LoopHead(turn, toolCallsMade)
            /\ UNCHANGED escaped
    /\ UNCHANGED << agent, apiKeySet, req, toolCallsMade, toolCallLog, confirmedMatches,
                    finalMatches, draftMessage, turn, toolCalls, tcIdx, pending,
                    response, extracted, execLog, dispatchLog, completionLog >>
    /\ UNCHANGED matcherVars
    /\ UNCHANGED directVars

\* in the loop body: a tool-selection completion is requested
OpenAIRequestCompletion ==
    /\ agent = "openai" /\ pc = "loop"
    /\ completionLog' = Append(completionLog,
                               [ purpose |-> "tools", turn |-> turn,
                                 madeBefore |-> toolCallsMade, toolCalls |-> None ])
    /\ pc' = "await_completion"
    /\ UNCHANGED << agent, apiKeySet, req, toolCallsMade, toolCallLog, confirmedMatches,
                    finalMatches, draftMessage, messages, turn, toolCalls, tcIdx,
                    pending, response, escaped, extracted, execLog, dispatchLog >>
    /\ UNCHANGED matcherVars
    /\ UNCHANGED directVars

\* the tool-selection completion is rejected: the catch block answers
OpenAICompletionFails ==
    /\ agent = "openai" /\ pc = "await_completion"
    /\ response' = Some(fallbackError("completion request failed"))
    /\ pc' = "done"
    /\ UNCHANGED << agent, apiKeySet, req, toolCallsMade, toolCallLog, confirmedMatches,
                    finalMatches, draftMessage, messages, turn, toolCalls, tcIdx,
                    pending, escaped, extracted, execLog, dispatchLog, completionLog >>
    /\ UNCHANGED matcherVars
    /\ UNCHANGED directVars

\* the tool-selection completion resolves with an assistant message
OpenAICompletionSettles ==
    /\ agent = "openai" /\ pc = "await_completion"
    /\ \E tcs \in AssistantToolCalls(turn) :
        /\ messages' = Append(messages, [role |-> "assistant", tool_calls |-> tcs])
        /\ completionLog' = [completionLog EXCEPT
                                ![Len(completionLog)].toolCalls = Some(Len(tcs))]
        /\ pc' = AfterCompletion(Len(tcs))
        /\ toolCalls' = tcs
        /\ tcIdx' = 1
    /\ UNCHANGED << agent, apiKeySet, req, toolCallsMade, toolCallLog, confirmedMatches,
                    finalMatches, draftMessage, turn, pending, response, escaped,
                    extracted, execLog, dispatchLog >>
    /\ UNCHANGED matcherVars
    /\ UNCHANGED directVars

\* the for-of loop over tool_calls is through: turn++
OpenAIToolLoopEnds ==
    /\ agent = "openai" /\ pc = "tool_loop"
    /\ tcIdx > Len(toolCalls)
    /\ turn' = turn + 1
    /\ pc' = LoopHead(turn + 1, toolCallsMade)
    /\ UNCHANGED << agent, apiKeySet, req, toolCallsMade, toolCallLog, confirmedMatches,
                    finalMatches, draftMessage, messages, toolCalls, tcIdx, pending,
                    response, escaped, extracted, execLog, dispatchLog, completionLog >>
    /\ UNCHANGED matcherVars
    /\ UNCHANGED directVars

\* `if (!isFunctionToolCall(toolCall)) continue`
OpenAISkipNonFunction ==
    /\ agent = "openai" /\ pc = "tool_loop"
    /\ tcIdx <= Len(toolCalls)
    /\ ~isFunctionToolCall(toolCalls[tcIdx].call)
    /\ tcIdx' = tcIdx + 1
    /\ UNCHANGED << agent, apiKeySet, req, pc, toolCallsMade, toolCallLog,
                    confirmedMatches, finalMatches, draftMessage, messages, turn,
                    toolCalls, pending, response, escaped, extracted, execLog,
                    dispatchLog, completionLog >>
    /\ UNCHANGED matcherVars
    /\ UNCHANGED directVars

\* the cap is reached: one synthetic tool message, then `break`
OpenAICapSignal ==
    /\ agent = "openai" /\ pc = "tool_loop"
    /\ tcIdx <= Len(toolCalls)
    /\ isFunctionToolCall(toolCalls[tcIdx].call)
    /\ CapReached(toolCallsMade)
    /\ messages' = Append(messages, [ role |-> "tool",
                                      tool_call_id |-> toolCalls[tcIdx].id,
                                      content |-> CapErrorContent ])
    /\ turn' = turn + 1
    /\ pc' = LoopHead(turn + 1, toolCallsMade)
    /\ UNCHANGED << agent, apiKeySet, req, toolCallsMade, toolCallLog, confirmedMatches,
                    finalMatches, draftMessage, toolCalls, tcIdx, pending, response,
                    escaped, extracted, execLog, dispatchLog, completionLog >>
    /\ UNCHANGED matcherVars
    /\ UNCHANGED directVars

\* the dispatch of one function tool call, up to the await of the tool
OpenAIDispatch ==
    /\ agent = "openai" /\ pc = "tool_loop"
    /\ tcIdx <= Len(toolCalls)
    /\ isFunctionToolCall(toolCalls[tcIdx].call)
    /\ ~CapReached(toolCallsMade)
    /\ LET toolCall == toolCalls[tcIdx]
           args     == safeParseJSON(toolCall.call.arguments, EmptyObject)
           d        == dispatchTool(toolCall.call.name, args,
                                    [ userId |-> req.userId, projectId |-> req.projectId,
                                      confirmedMatches |-> confirmedMatches ])
           entry    == [ callId |-> toolCall.id, name |-> toolCall.call.name,
                         args |-> args, turn |-> turn,
                         confirmedIds |-> { confirmedMatches[i].userId :
                                                i \in 1..Len(confirmedMatches) },
                         error |-> IF d.kind = "error" THEN Some(d.error) ELSE None ]
       IN  /\ dispatchLog' = Append(dispatchLog, entry)
           /\ IF d.kind = "error"
              THEN /\ toolCallsMade' = toolCallsMade + 1
                   /\ messages' = Append(messages, [ role |-> "tool",
                                                     tool_call_id |-> toolCall.id,
                                                     content |-> [error |-> d.error] ])
                   /\ tcIdx' = tcIdx + 1
                   /\ UNCHANGED << pc, pending, execLog >>
              ELSE /\ pending' = Some([tool |-> d.tool, input |-> d.input])
                   /\ execLog' = Append(execLog, [ tool |-> d.tool, input |-> d.input,
                                                   madeBefore |-> toolCallsMade,
                                                   turn |-> turn,
                                                   callId |-> toolCall.id ])
                   /\ pc' = "await_tool"
                   /\ UNCHANGED << toolCallsMade, messages, tcIdx >>
    /\ UNCHANGED << agent, apiKeySet, req, toolCallLog, confirmedMatches, finalMatches,
                    draftMessage, turn, toolCalls, response, escaped, extracted,
                    completionLog >>
    /\ UNCHANGED matcherVars
    /\ UNCHANGED directVars

\* the awaited tool settles: its result is captured and reported to the
\* conversation, or it throws and the catch block answers
OpenAIToolSettles ==
    /\ agent = "openai" /\ pc = "await_tool"
    /\ \E storageUp \in BOOLEAN :
        LET call == Val(pending)
            res  == IF call.tool = "match_users_by_skills"
                    THEN matchUsersBySkills(call.input, storageUp)
                    ELSE draftIntroMessage(call.input, storageUp)
        IN  IF res.ok
            THEN /\ toolCallsMade' = toolCallsMade + 1
                 /\ IF call.tool = "match_users_by_skills"
                    THEN /\ confirmedMatches' = confirmedMatches \o res.value.matches
                         /\ finalMatches' = Some(res.value.matches)
                         /\ UNCHANGED draftMessage
                    ELSE /\ draftMessage' = Some(res.value)
                         /\ UNCHANGED << confirmedMatches, finalMatches >>
                 /\ messages' = Append(messages, [ role |-> "tool",
                                                   tool_call_id |-> toolCalls[tcIdx].id,
                                                   content |-> [result |-> res.value] ])
                 /\ tcIdx' = tcIdx + 1
                 /\ pc' = "tool_loop"
                 /\ UNCHANGED response
            ELSE /\ response' = Some(fallbackError(res.error))
                 /\ pc' = "done"
                 /\ UNCHANGED << toolCallsMade, confirmedMatches, finalMatches,
                                 draftMessage, messages, tcIdx >>
    /\ pending' = None
    /\ UNCHANGED << agent, apiKeySet, req, toolCallLog, turn, toolCalls, escaped,
                    extracted, execLog, dispatchLog, completionLog >>
    /\ UNCHANGED matcherVars
    /\ UNCHANGED directVars

\* after the loop: the summary completion is requested
OpenAIRequestSummary ==
    /\ agent = "openai" /\ pc = "summary"
    /\ completionLog' = Append(completionLog,
                               [ purpose |-> "summary", turn |-> turn,
                                 madeBefore |-> toolCallsMade, toolCalls |-> None ])
    /\ pc' = "await_summary"
    /\ UNCHANGED << agent, apiKeySet, req, toolCallsMade, toolCallLog, confirmedMatches,
                    finalMatches, draftMessage, messages, turn, toolCalls, tcIdx,
                    pending, response, escaped, extracted, execLog, dispatchLog >>
    /\ UNCHANGED matcherVars
    /\ UNCHANGED directVars

\* the summary completion is rejected: the catch block answers
OpenAISummaryFails ==
    /\ agent = "openai" /\ pc = "await_summary"
    /\ response' = Some(fallbackError("completion request failed"))
    /\ pc' = "done"
    /\ UNCHANGED << agent, apiKeySet, req, toolCallsMade, toolCallLog, confirmedMatches,
                    finalMatches, draftMessage, messages, turn, toolCalls, tcIdx,
                    pending, escaped, extracted, execLog, dispatchLog, completionLog >>
    /\ UNCHANGED matcherVars
    /\ UNCHANGED directVars

\* the summary completion resolves: the AgentResponse is returned
OpenAISummarySettles ==
    /\ agent = "openai" /\ pc = "await_summary"
    /\ \E content \in SummaryContents :
        LET raw    == IF content = None THEN ArgsText(EmptyObject) ELSE content
            parsed == safeParseJSON(raw, EmptyObject)
        IN  /\ response' = Some(SummaryResponse(parsed))
            /\ completionLog' =
                   [ completionLog EXCEPT ![Len(completionLog)] =
                        [ purpose |-> "summary", turn |-> @.turn,
                          madeBefore |-> @.madeBefore, toolCalls |-> None,
                          content |-> content ] ]
    /\ pc' = "done"
    /\ UNCHANGED << agent, apiKeySet, req, toolCallsMade, toolCallLog, confirmedMatches,
                    finalMatches, draftMessage, messages, turn, toolCalls, tcIdx,
                    pending, escaped, extracted, execLog, dispatchLog >>
    /\ UNCHANGED matcherVars
    /\ UNCHANGED directVars

\* no tool function and no normaliseSkill is called on its own
DirectIdle ==
    /\ directCall = None
    /\ directPc = "idle"
    /\ directTrace = <<>>
    /\ directResult = None
    /\ normInput = None
    /\ normOutput = None

\* no matcher call is under way
MatcherIdle ==
    /\ rankArgs = None
    /\ rankResult = None
    /\ embeddingCache = <<>>
    /\ embedCalls = <<>>
    /\ embedRank = None
    /\ embedResult = None

(***************************************************************************)
(* The invocations considered.                                             *)
(***************************************************************************)
M_Hello == <<"h","e","l","l","o">>
M_Vue   == <<"a"," ","V","u","e"," ","d","e","v">>
M_Rust  == <<"R","u","s","t","?">>
\* "react native nodejs nextjs javascript tailwind django"
M_Stack ==
    << "r", "e", "a", "c", "t", " ", "n", "a", "t", "i", "v", "e", " ",
       "n", "o", "d", "e", "j", "s", " ", "n", "e", "x", "t", "j", "s",
       " ", "j", "a", "v", "a", "s", "c", "r", "i", "p", "t", " ", "t",
       "a", "i", "l", "w", "i", "n", "d", " ", "d", "j", "a", "n", "g",
       "o" >>

BoundedRequests ==
    { [ message |-> m, userId |-> "u1", projectId |-> p, approvedMessageTo |-> a ] :
        m \in {M_Hello, M_Vue, M_Rust, M_Stack},
        p \in {Undefined, "p1", "p9"},
        a \in {Undefined, "", "u2", "u3", "u9"} }

OpenAIRequests ==
    { [ message |-> M_Vue, userId |-> "u1", projectId |-> Undefined ] }

Init ==
    /\ agent \in {"bounded", "openai"}
    /\ apiKeySet \in BOOLEAN
    /\ agent = "bounded" => apiKeySet
    /\ req \in IF agent = "bounded" THEN BoundedRequests ELSE OpenAIRequests
    /\ pc = "start"
    /\ toolCallsMade = 0
    /\ toolCallLog = <<>>
    /\ confirmedMatches = <<>>
    /\ finalMatches = None
    /\ draftMessage = None
    /\ messages = <<>>
    /\ turn = 0
    /\ toolCalls = <<>>
    /\ tcIdx = 0
    /\ pending = None
    /\ response = None
    /\ escaped = None
    /\ extracted = FALSE
    /\ execLog = <<>>
    /\ dispatchLog = <<>>
    /\ completionLog = <<>>
    /\ MatcherIdle
    /\ DirectIdle

Next ==
    \/ BoundedPathA
    \/ BoundedNoSkills
    \/ BoundedMatch
    \/ BoundedToolSettles
    \/ OpenAIStart
    \/ OpenAIRequestCompletion
    \/ OpenAICompletionFails
    \/ OpenAICompletionSettles
    \/ OpenAIToolLoopEnds
    \/ OpenAISkipNonFunction
    \/ OpenAICapSignal
    \/ OpenAIDispatch
    \/ OpenAIToolSettles
    \/ OpenAIRequestSummary
    \/ OpenAISummaryFails
    \/ OpenAISummarySettles

Spec == Init /\ [][Next]_vars

(***************************************************************************)
(* rankUsersBySkills called on its own.                                    *)
(***************************************************************************)
MaxCandidates == 3

S_React      == <<"R","e","a","c","t">>
S_react      == <<"r","e","a","c","t">>
S_NodeJs     == <<"N","o","d","e",".","j","s">>
S_TypeScript == <<"T","y","p","e","S","c","r","i","p","t">>
S_MongoDB    == <<"M","o","n","g","o","D","B">>
S_Bang       == <<"!","!">>

\* the candidate profiles a caller may pass
CandidatePool ==
    { [ userId |-> "A", name |-> "A", skills |-> <<S_React, S_TypeScript>>,
        availability |-> "available" ],
      [ userId |-> "B", name |-> "B", skills |-> <<S_React, S_NodeJs, S_MongoDB>>,
        availability |-> "available" ],
      [ userId |-> "C", name |-> "C", skills |-> <<S_TypeScript, S_react, S_React>>,
        availability |-> "busy" ],
      [ userId |-> "D", name |-> "D", skills |-> <<S_Bang, S_React, S_MongoDB>>,
        availability |-> "available" ],
      [ userId |-> "E", name |-> "E", skills |-> <<>>,
        availability |-> "part-time" ],
      [ userId |-> "F", name |-> "F", skills |-> <<S_Bang>>,
        availability |-> "available" ] }

\* the lists of up to n distinct candidates
CandidateLists(n) ==
    UNION { { f \in [1..k -> CandidatePool] :
                \A i \in 1..k : \A j \in 1..k : i # j => f[i] # f[j] } :
            k \in 0..n }

RankQueries == { <<>>, <<S_React, S_NodeJs>>, <<S_react, S_TypeScript>> }

\* minScore in ten-thousandths
RankArguments ==
    { [ querySkills |-> q, users |-> u, topN |-> n, minScore |-> m ] :
        q \in RankQueries, u \in CandidateLists(MaxCandidates),
        n \in {0, 1, 3}, m \in {0, 1000, 6000} }

\* no agent invocation is under way
AgentIdle ==
    /\ agent = "none"
    /\ apiKeySet = FALSE
    /\ req = [ message |-> <<>>, userId |-> Undefined, projectId |-> Undefined ]
    /\ pc = "idle"
    /\ toolCallsMade = 0
    /\ toolCallLog = <<>>
    /\ confirmedMatches = <<>>
    /\ finalMatches = None
    /\ draftMessage = None
    /\ messages = <<>>
    /\ turn = 0
    /\ toolCalls = <<>>
    /\ tcIdx = 0
    /\ pending = None
    /\ response = None
    /\ escaped = None
    /\ extracted = FALSE
    /\ execLog = <<>>
    /\ dispatchLog = <<>>
    /\ completionLog = <<>>

agentVars == << agent, apiKeySet, req, pc, toolCallsMade, toolCallLog, confirmedMatches,
                finalMatches, draftMessage, messages, turn, toolCalls, tcIdx, pending,
                response, escaped, extracted, execLog, dispatchLog, completionLog >>

RankInit ==
    /\ AgentIdle
    /\ rankArgs \in { Some(a) : a \in RankArguments }
    /\ rankResult = None
    /\ embeddingCache = <<>>
    /\ embedCalls = <<>>
    /\ embedRank = None
    /\ embedResult = None
    /\ DirectIdle

\* the call rankUsersBySkills(querySkills, users, topN, minScore)
RankCall ==
    /\ rankArgs # None /\ rankResult = None
    /\ rankResult' = Some(rankUsersBySkills(Val(rankArgs).querySkills, Val(rankArgs).users,
                                            Val(rankArgs).topN, Val(rankArgs).minScore))
    /\ UNCHANGED << rankArgs, embeddingCache, embedCalls, embedRank, embedResult >>
    /\ UNCHANGED agentVars
    /\ UNCHANGED directVars

RankNext == RankCall

RankSpec == RankInit /\ [][RankNext]_vars

(***************************************************************************)
(* embeddingMatcher: the cache, generateSkillEmbedding and                 *)
(* rankUsersWithEmbeddings.  A call of generateSkillEmbedding runs up to   *)
(* its provider request in one step and finishes when the provider answers.*)
(***************************************************************************)
\* the size of the cache in the model (5000 in the program)
MAX_CACHE_SIZE == 2

\* how many generateSkillEmbedding calls are followed once some have been made
MaxEmbedCalls == 4

\* the characters in the order of their UTF-16 code units
CharOrder ==
    <<"\t", "\n", " ", "!", "+", ".">>
    \o <<"0","1","2","3","4","5","6","7","8","9">>
    \o UpperChars \o LowerChars \o <<"|">>

CharCode == [c \in Range(CharOrder) |->
                CHOOSE i \in 1..Len(CharOrder) : CharOrder[i] = c]

\* a < b as Array.prototype.sort compares strings by default
RECURSIVE StringLess(_, _)
StringLess(a, b) ==
    IF b = <<>> THEN FALSE
    ELSE IF a = <<>> THEN TRUE
    ELSE IF Head(a) # Head(b) THEN CharCode[Head(a)] < CharCode[Head(b)]
    ELSE StringLess(Tail(a), Tail(b))

RECURSIVE StringInsert(_, _)
StringInsert(x, sorted) ==
    IF sorted = <<>> THEN <<x>>
    ELSE IF StringLess(x, Head(sorted))
         THEN <<x>> \o sorted
         ELSE <<Head(sorted)>> \o StringInsert(x, Tail(sorted))

\* Array.prototype.sort() without a comparator
RECURSIVE SortStrings(_)
SortStrings(list) ==
    IF list = <<>> THEN <<>>
    ELSE StringInsert(list[Len(list)], SortStrings(SubSeq(list, 1, Len(list) - 1)))

\* Array.prototype.join(sep)
RECURSIVE Join(_, _)
Join(list, sep) ==
    IF list = <<>> THEN <<>>
    ELSE IF Len(list) = 1 THEN list[1]
    ELSE list[1] \o sep \o Join(Tail(list), sep)

\* s.toLowerCase().trim()
LowerTrim(s) == Trim(ToLowerCase(s))

\* mutant: the key keeps the order of the list
getCacheKey_Unsorted(skills) ==
    Join([i \in 1..Len(skills) |-> LowerTrim(skills[i])], <<"|">>)

getCacheKey(skills) ==
    Join(SortStrings([i \in 1..Len(skills) |-> LowerTrim(skills[i])]), <<"|">>)

\* The Map: a sequence of entries in insertion order.
CacheKeys(cache) == [i \in 1..Len(cache) |-> cache[i].key]
CacheHas(cache, key) == \E i \in 1..Len(cache) : cache[i].key = key
CacheGet(cache, key) ==
    cache[CHOOSE i \in 1..Len(cache) : cache[i].key = key].vector

\* Map.prototype.set: an existing key keeps its place
CacheSet(cache, key, vector) ==
    LET entry == [key |-> key, vector |-> vector]
    IN  IF CacheHas(cache, key)
        THEN [i \in 1..Len(cache) |-> IF cache[i].key = key THEN entry ELSE cache[i]]
        ELSE Append(cache, entry)

\* mutant: the cache is full only above the limit
CacheFull_OffByOne(cache) == Len(cache) > MAX_CACHE_SIZE

\* `embeddingCache.size >= MAX_CACHE_SIZE`
CacheFull(cache) == Len(cache) >= MAX_CACHE_SIZE

\* mutant: the entry inserted last is deleted
EvictOldest_Newest(cache) == SubSeq(cache, 1, Len(cache) - 1)

\* delete(embeddingCache.keys().next().value)
EvictOldest(cache) == Tail(cache)

\* lines 86-91: evict if full, then set
CacheStore(cache, key, vector) ==
    CacheSet(IF CacheFull(cache) THEN EvictOldest(cache) ELSE cache, key, vector)

\* new Array(1536).fill(0), with two dimensions in the model
ZeroVector == <<0, 0>>

\* the vectors the provider may answer with
ProviderVectors == { <<1, 0>>, <<1, 1>> }

\* generateSkillEmbedding up to its await (lines 68-82)
EmbedCallStart(skills, cache) ==
    LET key == getCacheKey(skills)
        base == [ skills |-> skills, key |-> key, outcome |-> "none",
                  error |-> None ]
    IN  IF Len(skills) = 0
        THEN base @@ [ status |-> "zero", vector |-> Some(ZeroVector) ]
        ELSE IF CacheHas(cache, key)
        THEN base @@ [ status |-> "hit", vector |-> Some(CacheGet(cache, key)) ]
        ELSE base @@ [ status |-> "inflight", vector |-> None ]

\* mutant: a provider error is answered with the zero vector
CallRejected_DefaultsToZero(call, err) ==
    [ call EXCEPT !.status = "ok", !.vector = Some(ZeroVector) ]

\* the provider request rejects: the call rejects with the same error
CallRejected(call, err) ==
    [ call EXCEPT !.status = "failed", !.error = Some(err) ]

\* the call has a vector to return
CallResolved(call) == call.status \in {"zero", "hit", "ok"}

\* embeddingCosine and parseFloat(score.toFixed(4)), in ten-thousandths
embeddingCosine(a, b) == ToFixed4(cosineSimilarity(a, b))

\* the comparator of rankUsersWithEmbeddings' sort
EmbedBefore(a, b) == a.cosineSimilarity > b.cosineSimilarity

RECURSIVE EmbedInsert(_, _)
EmbedInsert(x, sorted) ==
    IF sorted = <<>> THEN <<x>>
    ELSE IF EmbedBefore(x, Head(sorted))
         THEN <<x>> \o sorted
         ELSE <<Head(sorted)>> \o EmbedInsert(x, Tail(sorted))

RECURSIVE EmbedSort(_)
EmbedSort(list) ==
    IF list = <<>> THEN <<>>
    ELSE EmbedInsert(list[Len(list)], EmbedSort(SubSeq(list, 1, Len(list) - 1)))

\* rankUsersWithEmbeddings after its await (lines 151-176): vecs is
\* [queryVec, ...userVecs]; minScore is in ten-thousandths
EmbedRankOutput(querySkills, users, topN, minScore, vecs) ==
    LET querySet == { LowerTrim(querySkills[i]) : i \in 1..Len(querySkills) }
        InQuery(sk) == LowerTrim(sk) \in querySet
        scored == [i \in 1..Len(users) |->
                     LET matchedSkills == SelectSeq(users[i].skills, InQuery)
                     IN  [ userId           |-> users[i].userId,
                           name             |-> users[i].name,
                           skills           |-> users[i].skills,
                           availability     |-> users[i].availability,
                           matchedSkills    |-> matchedSkills,
                           cosineSimilarity |-> embeddingCosine(vecs[1], vecs[i + 1]),
                           matchScore       |-> Len(matchedSkills),
                           totalSkills      |-> Len(users[i].skills) ]]
        AboveMin(m) == m.cosineSimilarity >= minScore
    IN  Take(EmbedSort(SelectSeq(scored, AboveMin)), topN)

S_GO    == <<"G","O">>
S_vueSp == <<" ","v","u","e">>

\* the rankUsersWithEmbeddings calls considered
EmbedRankArguments ==
    { [ querySkills |-> <<S_Vue>>,
        users |-> << [ userId |-> "u1", name |-> "Ana",  skills |-> <<S_Go>>,
                       availability |-> "available" ],
                     [ userId |-> "u2", name |-> "Ben",  skills |-> <<S_Vue>>,
                       availability |-> "available" ],
                     [ userId |-> "u3", name |-> "Cleo", skills |-> <<S_Sql>>,
                       availability |-> "busy" ],
                     [ userId |-> "u4", name |-> "Dev",  skills |-> <<S_Cpp>>,
                       availability |-> "part-time" ],
                     [ userId |-> "u5", name |-> "Eve",  skills |-> <<S_vueSp, S_GO>>,
                       availability |-> "available" ] >>,
        topN |-> 3, minScore |-> 3000 ],
      [ querySkills |-> <<S_GO, S_vueSp>>,
        users |-> << [ userId |-> "u4", name |-> "Dev",  skills |-> <<S_Cpp>>,
                       availability |-> "part-time" ] >>,
        topN |-> 1, minScore |-> 0 ],
      [ querySkills |-> <<S_Sql>>,
        users |-> << [ userId |-> "u6", name |-> "Fay",  skills |-> <<>>,
                       availability |-> "available" ] >>,
        topN |-> 3, minScore |-> 0 ],
      [ querySkills |-> <<>>,
        users |-> << [ userId |-> "u2", name |-> "Ben",  skills |-> <<S_Vue>>,
                       availability |-> "available" ] >>,
        topN |-> 3, minScore |-> 3000 ] }

\* the skill lists precomputeUserEmbedding is called with
PrecomputeSkills == { <<S_Sql>>, <<S_Vue, S_Go>> }

EmbedInit ==
    /\ AgentIdle
    /\ rankArgs = None
    /\ rankResult = None
    /\ embeddingCache = <<>>
    /\ embedCalls = <<>>
    /\ embedRank = None
    /\ embedResult = None
    /\ DirectIdle

\* precomputeUserEmbedding(skills): a call of generateSkillEmbedding on its own
EmbedPrecompute ==
    /\ Len(embedCalls) < MaxEmbedCalls
    /\ \E skills \in PrecomputeSkills :
          embedCalls' = Append(embedCalls, EmbedCallStart(skills, embeddingCache))
    /\ UNCHANGED << rankArgs, rankResult, embeddingCache, embedRank, embedResult >>
    /\ UNCHANGED agentVars
    /\ UNCHANGED directVars

\* rankUsersWithEmbeddings up to its await: all calls are started at once
EmbedRankStart ==
    /\ embedRank = None \/ embedResult # None
    /\ \E a \in EmbedRankArguments :
          IF Len(a.querySkills) = 0 \/ Len(a.users) = 0
          THEN /\ embedRank' = Some([args |-> a, calls |-> <<>>])
               /\ embedResult' = Some(Ok(<<>>))
               /\ UNCHANGED embedCalls
          ELSE /\ \/ embedCalls = <<>>
                  \/ Len(embedCalls) + 1 + Len(a.users) <= MaxEmbedCalls
               /\ LET lists == <<a.querySkills>>
                               \o [i \in 1..Len(a.users) |-> a.users[i].skills]
                  IN  /\ embedCalls' = embedCalls \o
                            [i \in 1..Len(lists) |-> EmbedCallStart(lists[i], embeddingCache)]
                      /\ embedRank' = Some([ args |-> a,
                                             calls |-> [i \in 1..Len(lists) |->
                                                           Len(embedCalls) + i] ])
               /\ embedResult' = None
    /\ UNCHANGED << rankArgs, rankResult, embeddingCache >>
    /\ UNCHANGED agentVars
    /\ UNCHANGED directVars

\* the provider answers call i: lines 84-93
ProviderResolves ==
    /\ \E i \in 1..Len(embedCalls) : \E v \in ProviderVectors :
          /\ embedCalls[i].status = "inflight"
          /\ embedCalls' = [ embedCalls EXCEPT ![i] =
                               [ @ EXCEPT !.status = "ok", !.vector = Some(v),
                                          !.outcome = "ok" ] ]
          /\ embeddingCache' = CacheStore(embeddingCache, embedCalls[i].key, v)
    /\ UNCHANGED << rankArgs, rankResult, embedRank, embedResult >>
    /\ UNCHANGED agentVars
    /\ UNCHANGED directVars

\* the provider rejects call i: the call rejects, and so does a pending
\* Promise.all that holds it
ProviderFails ==
    /\ \E i \in 1..Len(embedCalls) :
          /\ embedCalls[i].status = "inflight"
          /\ LET err  == <<"embedding request failed", i>>
                 call == CallRejected(embedCalls[i], err)
             IN  /\ embedCalls' = [ embedCalls EXCEPT ![i] =
                                      [ call EXCEPT !.outcome = "error" ] ]
                 /\ IF /\ call.status = "failed"
                       /\ embedRank # None
                       /\ embedResult = None
                       /\ i \in Range(Val(embedRank).calls)
                    THEN embedResult' = Some(Throw(err))
                    ELSE UNCHANGED embedResult
    /\ UNCHANGED << rankArgs, rankResult, embeddingCache, embedRank >>
    /\ UNCHANGED agentVars
    /\ UNCHANGED directVars

\* Promise.all resolves: the ranking is computed and returned
EmbedRankSettles ==
    /\ embedRank # None /\ embedResult = None
    /\ \A k \in Range(Val(embedRank).calls) : CallResolved(embedCalls[k])
    /\ LET a    == Val(embedRank).args
           vecs == [k \in 1..Len(Val(embedRank).calls) |->
                       Val(embedCalls[Val(embedRank).calls[k]].vector)]
       IN  embedResult' = Some(Ok(EmbedRankOutput(a.querySkills, a.users, a.topN,
                                                  a.minScore, vecs)))
    /\ UNCHANGED << rankArgs, rankResult, embeddingCache, embedCalls, embedRank >>
    /\ UNCHANGED agentVars
    /\ UNCHANGED directVars

EmbedNext ==
    \/ EmbedPrecompute
    \/ EmbedRankStart
    \/ ProviderResolves
    \/ ProviderFails
    \/ EmbedRankSettles

EmbedSpec == EmbedInit /\ [][EmbedNext]_vars

(***************************************************************************)
(* The two tool functions called on their own: each step runs the          *)
(* function up to its next await, and directTrace records the              *)
(* collaborators it invokes (storage queries, the rankers).                *)
(***************************************************************************)
S_Rust == <<"R","u","s","t">>

\* an object with the one property f, for each value in vals
Field(f, vals) == { [x \in {f} |-> v] : v \in vals }

\* the MatchUsersInput objects considered
MatchInputs ==
    { a @@ b @@ c @@ d @@ e :
        a \in {EmptyObject} \cup Field("skills", {<<>>, <<S_Vue>>, <<S_Rust>>, <<S_Go, S_Sql>>}),
        b \in {EmptyObject} \cup Field("limit", {0, 1, 50}),
        c \in {EmptyObject} \cup Field("excludeUserId", {"u2"}),
        d \in {EmptyObject} \cup Field("availabilityFilter", {"busy"}),
        e \in {EmptyObject} \cup Field("useEmbeddings", {TRUE}) }

\* the DraftIntroInput objects considered
DraftInputs ==
    { a @@ b @@ c :
        a \in {EmptyObject} \cup Field("fromUserId", {"", "u1", "u9"}),
        b \in {EmptyObject} \cup Field("toUserId", {"u2", "u9"}),
        c \in {EmptyObject} \cup Field("projectId", {"", "p1", "p9"}) }

\* the calls considered; apiKeySet is process.env.OPENAI_API_KEY
DirectCalls ==
    { [ tool |-> "match_users_by_skills", input |-> i, apiKeySet |-> k ] :
        i \in MatchInputs, k \in BOOLEAN }
    \cup
    { [ tool |-> "draft_intro_message", input |-> i, apiKeySet |-> FALSE ] :
        i \in DraftInputs }

\* mutant: only a missing list is refused
MatchInputInvalid_MissingOnly(input) == ~Has(input, "skills")

\* `!skills || skills.length === 0`
MatchInputInvalid(input) == ~Has(input, "skills") \/ Len(input.skills) = 0

\* `limit = 5` of the destructuring
MatchLimit(input) == IF Has(input, "limit") THEN input.limit ELSE 5

\* Math.min(limit * 5, 200)
PreFilterLimit(input) == Min(MatchLimit(input) * 5, 200)

\* what the Stage 1 query returns when storage answers
Stage1(input) ==
    LET Hit(u) == MongoFilterMatches(u, input.skills, StrField(input, "excludeUserId"),
                                     StrField(input, "availabilityFilter"))
    IN  LimitDocs(SelectSeq(UsersCollection, Hit), PreFilterLimit(input))

\* `useEmbeddings && process.env.OPENAI_API_KEY`
UsesEmbeddings(call) ==
    /\ Has(call.input, "useEmbeddings")
    /\ call.input.useEmbeddings
    /\ call.apiKeySet

DirectInit ==
    /\ AgentIdle
    /\ MatcherIdle
    /\ directCall \in { Some(c) : c \in DirectCalls }
    /\ directPc = "start"
    /\ directTrace = <<>>
    /\ directResult = None
    /\ normInput = None
    /\ normOutput = None

\* matchUsersBySkills, lines 44-71: the input check, then the Stage 1 query
MatchToolStart ==
    /\ directPc = "start"
    /\ Val(directCall).tool = "match_users_by_skills"
    /\ LET input == Val(directCall).input
       IN  IF MatchInputInvalid(input)
           THEN /\ directResult' = Some(matchUsersBySkills(input, TRUE))
                /\ directPc' = "done"
                /\ UNCHANGED directTrace
           ELSE /\ directTrace' = Append(directTrace,
                                         [ op     |-> "User.find",
                                           skills |-> input.skills,
                                           limit  |-> PreFilterLimit(input) ])
                /\ directPc' = "m_find"
                /\ UNCHANGED directResult
    /\ UNCHANGED << directCall, normInput, normOutput >>
    /\ UNCHANGED agentVars
    /\ UNCHANGED matcherVars

\* the Stage 1 query rejects: so does the tool
MatchStorageFails ==
    /\ directPc = "m_find"
    /\ directResult' = Some(matchUsersBySkills(Val(directCall).input, FALSE))
    /\ directPc' = "done"
    /\ UNCHANGED << directCall, directTrace, normInput, normOutput >>
    /\ UNCHANGED agentVars
    /\ UNCHANGED matcherVars

\* the Stage 1 query answers, lines 73-104: the empty result, or Stage 2
MatchStorageAnswers ==
    /\ directPc = "m_find"
    /\ LET call     == Val(directCall)
           input    == call.input
           rawUsers == Stage1(input)
       IN  IF Len(rawUsers) = 0
           THEN /\ directResult' = Some(matchUsersBySkills(input, TRUE))
                /\ directPc' = "done"
                /\ UNCHANGED directTrace
           ELSE IF UsesEmbeddings(call)
           THEN /\ directTrace' = Append(directTrace,
                                         [ op          |-> "rankUsersWithEmbeddings",
                                           querySkills |-> input.skills,
                                           users       |-> rawUsers,
                                           topN        |-> MatchLimit(input),
                                           minScore    |-> 3000 ])
                /\ directPc' = "m_embed"
                /\ UNCHANGED directResult
           ELSE /\ directTrace' = Append(directTrace,
                                         [ op          |-> "rankUsersBySkills",
                                           querySkills |-> input.skills,
                                           users       |-> rawUsers,
                                           topN        |-> MatchLimit(input),
                                           minScore    |-> 1000 ])
                /\ directResult' = Some(matchUsersBySkills(input, TRUE))
                /\ directPc' = "done"
    /\ UNCHANGED << directCall, normInput, normOutput >>
    /\ UNCHANGED agentVars
    /\ UNCHANGED matcherVars

\* rankUsersWithEmbeddings rejects (a provider request failed): so does the tool
MatchEmbedFails ==
    /\ directPc = "m_embed"
    /\ directResult' = Some(Throw("embedding request failed"))
    /\ directPc' = "done"
    /\ UNCHANGED << directCall, directTrace, normInput, normOutput >>
    /\ UNCHANGED agentVars
    /\ UNCHANGED matcherVars

\* rankUsersWithEmbeddings returns, lines 92-104: the provider (or the
\* cache) gave some vector for the query and for each candidate
MatchEmbedSettles ==
    /\ directPc = "m_embed"
    /\ LET r == directTrace[Len(directTrace)]
       IN  \E vecs \in [1..(1 + Len(r.users)) -> ProviderVectors] :
              LET rankedMatches == EmbedRankOutput(r.querySkills, r.users, r.topN,
                                                   r.minScore, vecs)
              IN  directResult' = Some(Ok([ matches        |-> rankedMatches,
                                            searchedSkills |-> r.querySkills,
                                            totalFound     |-> Len(rankedMatches),
                                            algorithm      |-> "cosine-embedding" ]))
    /\ directPc' = "done"
    /\ UNCHANGED << directCall, directTrace, normInput, normOutput >>
    /\ UNCHANGED agentVars
    /\ UNCHANGED matcherVars

\* draftIntroMessage, lines 28-38: the input check, then both users are
\* looked up at once
DraftToolStart ==
    /\ directPc = "start"
    /\ Val(directCall).tool = "draft_intro_message"
    /\ LET input == Val(directCall).input
           res   == draftIntroMessage(input, TRUE)
       IN  IF ~Truthy(StrField(input, "fromUserId")) \/ ~Truthy(StrField(input, "toUserId"))
           THEN /\ directResult' = Some(res)
                /\ directPc' = "done"
                /\ UNCHANGED directTrace
           ELSE /\ directTrace' = directTrace \o
                        << [ op |-> "User.findById", id |-> input.fromUserId ],
                           [ op |-> "User.findById", id |-> input.toUserId ] >>
                /\ directPc' = "d_users"
                /\ UNCHANGED directResult
    /\ UNCHANGED << directCall, normInput, normOutput >>
    /\ UNCHANGED agentVars
    /\ UNCHANGED matcherVars

\* a storage lookup of draftIntroMessage rejects: so does the tool
DraftStorageFails ==
    /\ directPc \in {"d_users", "d_project"}
    /\ directResult' = Some(draftIntroMessage(Val(directCall).input, FALSE))
    /\ directPc' = "done"
    /\ UNCHANGED << directCall, directTrace, normInput, normOutput >>
    /\ UNCHANGED agentVars
    /\ UNCHANGED matcherVars

\* both user lookups answer, lines 40-52: not-found errors, then the
\* project lookup when a projectId is given
DraftUsersAnswer ==
    /\ directPc = "d_users"
    /\ LET input == Val(directCall).input
           res   == draftIntroMessage(input, TRUE)
       IN  IF ~res.ok \/ ~Truthy(StrField(input, "projectId"))
           THEN /\ directResult' = Some(res)
                /\ directPc' = "done"
                /\ UNCHANGED directTrace
           ELSE /\ directTrace' = Append(directTrace,
                                         [ op |-> "Project.findById",
                                           id |-> input.projectId ])
                /\ directPc' = "d_project"
                /\ UNCHANGED directResult
    /\ UNCHANGED << directCall, normInput, normOutput >>
    /\ UNCHANGED agentVars
    /\ UNCHANGED matcherVars

\* the project lookup answers, lines 48-93: the draft is built and returned
DraftProjectAnswers ==
    /\ directPc = "d_project"
    /\ directResult' = Some(draftIntroMessage(Val(directCall).input, TRUE))
    /\ directPc' = "done"
    /\ UNCHANGED << directCall, directTrace, normInput, normOutput >>
    /\ UNCHANGED agentVars
    /\ UNCHANGED matcherVars

DirectNext ==
    \/ MatchToolStart
    \/ MatchStorageFails
    \/ MatchStorageAnswers
    \/ MatchEmbedFails
    \/ MatchEmbedSettles
    \/ DraftToolStart
    \/ DraftStorageFails
    \/ DraftUsersAnswer
    \/ DraftProjectAnswers

DirectSpec == DirectInit /\ [][DirectNext]_vars

(***************************************************************************)
(* normaliseSkill called on its own, then on its own result.               *)
(***************************************************************************)
\* the longest skill string passed to normaliseSkill
MaxSkillLength == 5

\* the characters of those strings: a capital, a small letter, a digit,
\* two kinds of whitespace and a punctuation mark
SkillAlphabet == {"R", "e", "1", " ", "\t", "."}

SkillStrings == UNION { [1..n -> SkillAlphabet] : n \in 0..MaxSkillLength }

NormInit ==
    /\ AgentIdle
    /\ MatcherIdle
    /\ directCall = None
    /\ directPc = "idle"
    /\ directTrace = <<>>
    /\ directResult = None
    /\ normInput \in { Some(str) : str \in SkillStrings }
    /\ normOutput = <<>>

\* normaliseSkill(skill), then normaliseSkill of what it returned
NormApply ==
    /\ normInput # None
    /\ Len(normOutput) < 2
    /\ normOutput' = Append(normOutput,
                            normaliseSkill(IF normOutput = <<>>
                                           THEN Val(normInput)
                                           ELSE normOutput[Len(normOutput)]))
    /\ UNCHANGED << directCall, directPc, directTrace, directResult, normInput >>
    /\ UNCHANGED agentVars
    /\ UNCHANGED matcherVars

NormNext == NormApply

NormSpec == NormInit /\ [][NormNext]_vars

(***************************************************************************)
(* Properties.                                                             *)
(***************************************************************************)
MatchTool == "match_users_by_skills"
DraftTool == "draft_intro_message"

Finished == pc = "done"

\* the ids of the tool calls that entered a tool function
ExecutedIds == { execLog[j].callId : j \in 1..Len(execLog) }

\* the ids of the tool calls handed to dispatchTool
DispatchedIds == { dispatchLog[i].callId : i \in 1..Len(dispatchLog) }

\* the conversation holds a tool message for call id with this content
HasToolMessage(id, content) ==
    \E n \in 1..Len(messages) :
        /\ messages[n].role = "tool"
        /\ messages[n].tool_call_id = id
        /\ messages[n].content = content

\* the conversation holds some tool message for call id
HasSomeToolMessage(id) ==
    \E n \in 1..Len(messages) :
        /\ messages[n].role = "tool"
        /\ messages[n].tool_call_id = id

\* no known skill occurs in the lowercased message
NoKnownSkillIn(message) ==
    \A k \in 1..Len(KNOWN_SKILLS) : ~Includes(ToLowerCase(message), KNOWN_SKILLS[k])

\* a summary completion has been requested
SummaryRequested ==
    \E i \in 1..Len(completionLog) : completionLog[i].purpose = "summary"

\* C1: in runOpenAIAgent every draft_intro_message call whose to_user_id is
\* not the userId of a match confirmed so far gets an error from dispatch,
\* never enters draftIntroMessage, and leaves draftMessage (and the
\* response's draftMessage) null -- whether or not the id is a stored user.
C1_GuardBlocksUnconfirmedDraft ==
    agent = "openai" =>
        \A i \in 1..Len(dispatchLog) :
            LET d == dispatchLog[i]
            IN  ( /\ d.name = DraftTool
                  /\ StrField(d.args, "to_user_id") \notin d.confirmedIds )
                => /\ d.error # None
                   /\ d.callId \notin ExecutedIds
                   /\ draftMessage = None
                   /\ response # None => Val(response).draftMessage = None

\* C1 witness: after a match confirmed some users, a draft to u1 -- a stored
\* user who is not among them -- was refused, and the invocation returned.
C1_Witness ==
    /\ agent = "openai" /\ response # None
    /\ FindUserById("u1") # None
    /\ \E i \in 1..Len(dispatchLog) :
          /\ dispatchLog[i].name = DraftTool
          /\ StrField(dispatchLog[i].args, "to_user_id") = "u1"
          /\ dispatchLog[i].confirmedIds # {}
          /\ "u1" \notin dispatchLog[i].confirmedIds
          /\ dispatchLog[i].error # None

\* the user ids returned by the match_users_by_skills calls logged so far
BoundedMatchedIds ==
    UNION { { toolCallLog[i].output.matches[k].userId :
                k \in 1..Len(toolCallLog[i].output.matches) } :
            i \in { n \in 1..Len(toolCallLog) : toolCallLog[n].tool = MatchTool } }

\* C2 (as claimed): in runBoundedAgent draft_intro_message is entered only
\* for a recipient returned by match_users_by_skills earlier in the same
\* invocation, and a request naming any other id ends without a draft.
C2_BoundedDraftOnlyToMatched ==
    agent = "bounded" =>
        /\ \A j \in 1..Len(execLog) :
              execLog[j].tool = DraftTool => execLog[j].input.toUserId \in BoundedMatchedIds
        /\ ( /\ response # None
             /\ Truthy(req.approvedMessageTo)
             /\ req.approvedMessageTo \notin BoundedMatchedIds )
           => /\ ~Val(response).success
              /\ ~Has(Val(response), "draftMessage")

\* C3: toolCallsMade never exceeds 2, at most 2 tool functions are entered
\* in one invocation of either agent, every entry into a tool function
\* follows a cap check that saw fewer than 2 calls, and the rule-based
\* agent's check raises at 2.
C3_ToolCallCap ==
    /\ toolCallsMade <= 2
    /\ Len(execLog) <= 2
    /\ \A j \in 1..Len(execLog) : execLog[j].madeBefore < 2
    /\ agent = "bounded" => Len(execLog) = toolCallsMade
    /\ BoundedCapExceeded(2)

\* C3 witness: two tool functions ran, the model asked for a third call and
\* was sent the cap signal instead.
C3_Witness ==
    /\ agent = "openai"
    /\ toolCallsMade = 2
    /\ Len(execLog) = 2
    /\ \E n \in 1..Len(messages) :
          messages[n].role = "tool" /\ messages[n].content = CapErrorContent

\* C4 (as claimed): when the next completion is requested, every function
\* tool call that was asked for and not dispatched (the cap was reached) has
\* not entered a tool and has a synthetic error tool message with its id.
C4_EveryExcessCallAnswered ==
    (agent = "openai" /\ pc \in {"await_completion", "await_summary"}) =>
        \A n \in 1..Len(messages) :
            messages[n].role = "assistant" =>
                \A k \in 1..Len(messages[n].tool_calls) :
                    LET tc == messages[n].tool_calls[k]
                    IN  (isFunctionToolCall(tc.call) /\ tc.id \notin DispatchedIds)
                        => /\ tc.id \notin ExecutedIds
                           /\ HasToolMessage(tc.id, CapErrorContent)

\* C5 (as claimed): at most one tool call is awaited at a time, tool call #2
\* is decided by a later completion than tool call #1, and a draft is never
\* dispatched from the completion that asked for the match confirming its
\* recipient.
C5_SecondCallDecidedAfterFirstResult ==
    /\ Len(pending) <= 1
    /\ agent = "bounded" => Len(execLog) <= 1
    /\ agent = "openai" =>
          /\ Len(dispatchLog) >= 2 => dispatchLog[2].turn > dispatchLog[1].turn
          /\ \A j \in 1..Len(execLog) : \A i \in 1..(j - 1) :
                (execLog[i].tool = MatchTool /\ execLog[j].tool = DraftTool)
                => execLog[j].turn > execLog[i].turn

\* C6: a new query (no approvedMessageTo) whose message holds no known
\* skill makes no tool call and ends in the clarification failure.
C6_NoSkillsNoToolCall ==
    ( /\ agent = "bounded"
      /\ ~Truthy(req.approvedMessageTo)
      /\ NoKnownSkillIn(req.message) )
    => /\ toolCallsMade = 0
       /\ toolCallLog = <<>>
       /\ execLog = <<>>
       /\ pending = None
       /\ response # None =>
            LET r == Val(response)
            IN  /\ r.success = FALSE
                /\ r.awaitingApproval = FALSE
                /\ r.toolCallsMade = 0
                /\ r.toolCallLog = <<>>
                /\ r.reasoning = "could not detect skills, please mention skills"
                /\ r.error = "No recognizable skills found in your message."
                /\ ~Has(r, "draftMessage")
                /\ ~Has(r, "matches")

\* C6 witness: such an invocation has returned
C6_Witness ==
    /\ agent = "bounded"
    /\ ~Truthy(req.approvedMessageTo)
    /\ NoKnownSkillIn(req.message)
    /\ extracted
    /\ response # None

\* C7: a new query with at least one known skill makes exactly one tool
\* call, match_users_by_skills; when the tool succeeds the output is a
\* success without a draft that awaits approval exactly when there are
\* matches (then with a prompt naming the top match, else with matches = []).
C7_NewQueryMatchesOnce ==
    ( /\ agent = "bounded"
      /\ ~Truthy(req.approvedMessageTo)
      /\ ~NoKnownSkillIn(req.message)
      /\ response # None )
    => LET r == Val(response)
       IN  /\ r.toolCallsMade = 1
           /\ Len(execLog) = 1
           /\ execLog[1].tool = MatchTool
           /\ Len(r.toolCallLog) = 1 =>
                /\ r.success
                /\ r.matches = r.toolCallLog[1].output.matches
                /\ Has(r, "draftMessage") => r.draftMessage = None
                /\ r.awaitingApproval <=> (r.matches # <<>>)
                /\ r.matches # <<>> =>
                      /\ Has(r, "approvalPrompt")
                      /\ r.approvalPrompt.bestMatch = r.matches[1].name
                /\ r.matches = <<>> => ~Has(r, "approvalPrompt")
           /\ Len(r.toolCallLog) = 0 => ~r.success

\* C7 witness: the match found users and the output awaits approval
C7_Witness ==
    /\ agent = "bounded"
    /\ ~Truthy(req.approvedMessageTo)
    /\ response # None
    /\ Val(response).success
    /\ Val(response).awaitingApproval
    /\ Len(Val(response).matches) >= 2

\* C8: with an approvedMessageTo id the invocation never extracts skills
\* and never matches; draft_intro_message is tool call #1, from the
\* requester to the approved id, and its success gives toolCallsMade = 1,
\* the draft, and awaitingApproval = false.
C8_ApprovedPathDraftsDirectly ==
    (agent = "bounded" /\ Truthy(req.approvedMessageTo)) =>
        /\ ~extracted
        /\ \A j \in 1..Len(execLog) : execLog[j].tool # MatchTool
        /\ pc # "start" =>
              /\ Len(execLog) = 1
              /\ execLog[1].tool = DraftTool
              /\ execLog[1].madeBefore = 0
              /\ execLog[1].input.fromUserId = req.userId
              /\ execLog[1].input.toUserId = req.approvedMessageTo
        /\ (response # None /\ Val(response).success) =>
              LET r == Val(response)
              IN  /\ r.toolCallsMade = 1
                  /\ IsSome(r.draftMessage)
                  /\ Val(r.draftMessage).recipientId = req.approvedMessageTo
                  /\ Val(r.draftMessage).senderName = Val(FindUserById(req.userId)).name
                  /\ r.awaitingApproval = FALSE

\* C8 witness: the approved draft was produced
C8_Witness ==
    /\ agent = "bounded"
    /\ Truthy(req.approvedMessageTo)
    /\ response # None
    /\ Val(response).success
    /\ Val(response).toolCallsMade = 1

\* C9: the tool-selection loop asks for at most 2 completions (3 with the
\* summary), asks for none once toolCallsMade is 2, and after an answer
\* without tool calls the only further completion is the summary.
C9_AtMostTwoToolTurns ==
    agent = "openai" =>
        LET IsToolTurn(c) == c.purpose = "tools"
        IN  /\ Len(SelectSeq(completionLog, IsToolTurn)) <= 2
            /\ Len(completionLog) <= 3
            /\ \A i \in 1..Len(completionLog) :
                  /\ completionLog[i].purpose = "tools"
                        => completionLog[i].madeBefore < 2
                  /\ completionLog[i].purpose = "summary"
                        => i = Len(completionLog)
                  /\ ( /\ completionLog[i].purpose = "tools"
                       /\ completionLog[i].toolCalls = Some(0)
                       /\ i < Len(completionLog) )
                     => completionLog[i + 1].purpose = "summary"

\* C9 witness: two tool-selection completions and the summary were requested
C9_Witness ==
    /\ agent = "openai"
    /\ Len(completionLog) = 3
    /\ toolCallsMade = 2
    /\ response # None

\* every tool-selection completion requested so far was answered
ToolTurnsAnswered ==
    \A i \in 1..Len(completionLog) :
        completionLog[i].purpose = "tools" => completionLog[i].toolCalls # None

\* every tool function entered so far returned a result to the conversation
ToolsReturned ==
    \A j \in 1..Len(execLog) : HasSomeToolMessage(execLog[j].callId)

RequestedCalls ==
    UNION { { messages[n].tool_calls[k] : k \in 1..Len(messages[n].tool_calls) } :
            n \in { m \in 1..Len(messages) : messages[m].role = "assistant" } }

\* the arguments string of a requested call is not valid JSON
MalformedArguments(tc) ==
    /\ isFunctionToolCall(tc.call)
    /\ tc.call.arguments # None
    /\ ~Val(tc.call.arguments).valid

\* C11: a dispatched tool call whose arguments string is not valid JSON is
\* parsed to the empty object, is answered with an error tool message and
\* never enters a tool; the invocation has not raised because of it: the
\* next function call of the same message is dispatched or cap-signalled
\* and, unless a completion or a tool throws, the summary is requested.
\* A summary that does not parse gives the default response fields.
C11_MalformedJsonDegrades ==
    agent = "openai" =>
        /\ \A i \in 1..Len(dispatchLog) :
              LET d == dispatchLog[i]
              IN  (\E tc \in RequestedCalls : tc.id = d.callId /\ MalformedArguments(tc))
                  => /\ d.args = EmptyObject
                     /\ d.error # None
                     /\ d.callId \notin ExecutedIds
                     /\ HasToolMessage(d.callId, [error |-> Val(d.error)])
                     /\ escaped = None
                     /\ (Finished /\ ToolTurnsAnswered /\ ToolsReturned)
                            => (response # None /\ SummaryRequested)
        /\ pc \in {"await_completion", "await_summary"} =>
              \A tc \in RequestedCalls : \A later \in RequestedCalls :
                  ( /\ MalformedArguments(tc) /\ tc.id \in DispatchedIds
                    /\ isFunctionToolCall(later.call)
                    /\ later.id[1] = tc.id[1] /\ later.id[2] > tc.id[2]
                    /\ \A mid \in RequestedCalls :
                          (mid.id[1] = tc.id[1] /\ tc.id[2] < mid.id[2]
                           /\ mid.id[2] < later.id[2]) => ~isFunctionToolCall(mid.call) )
                  => \/ later.id \in DispatchedIds
                     \/ HasToolMessage(later.id, CapErrorContent)
        /\ \A i \in 1..Len(completionLog) :
              ( /\ completionLog[i].purpose = "summary"
                /\ Has(completionLog[i], "content")
                /\ completionLog[i].content = MalformedText )
              => /\ response # None
                 /\ Val(response).success
                 /\ Val(response).reasoning = "Agent completed."
                 /\ Val(response).awaitingApproval = FALSE
                 /\ Val(response).approvalPrompt = Undefined
                 /\ Val(response).error = None

\* C11 witness: a match call with malformed arguments was answered with an
\* error, a later call of the same message ran a tool, and the summary came
\* back unparsable.
C11_Witness ==
    /\ agent = "openai"
    /\ response # None
    /\ \E i \in 1..Len(dispatchLog) : \E j \in 1..Len(execLog) :
          /\ dispatchLog[i].args = EmptyObject
          /\ dispatchLog[i].name = MatchTool
          /\ execLog[j].callId[1] = dispatchLog[i].callId[1]
          /\ execLog[j].callId[2] > dispatchLog[i].callId[2]
    /\ Has(completionLog[Len(completionLog)], "content")
    /\ completionLog[Len(completionLog)].content = MalformedText

\* the candidate of a rankUsersBySkills call that a ScoredMatch stands for
RankedCandidate(m) ==
    CHOOSE u \in Range(Val(rankArgs).users) : u.userId = m.userId

\* C17: the output of rankUsersBySkills holds each candidate at most once,
\* is sorted non-increasing lexicographically by (cosineSimilarity,
\* matchScore, totalSkills), holds only scores >= minScore, and is no
\* longer than topN and than the candidate list.
C17_RankContract ==
    rankResult # None =>
        LET out == Val(rankResult)
            a   == Val(rankArgs)
        IN  /\ Len(out) <= a.topN
            /\ Len(out) <= Len(a.users)
            /\ \A i \in 1..Len(out) :
                  /\ out[i].cosineSimilarity >= a.minScore
                  /\ \E u \in Range(a.users) : u.userId = out[i].userId
                  /\ \A j \in 1..Len(out) : out[i].userId = out[j].userId => i = j
            /\ \A i \in 1..(Len(out) - 1) :
                  \/ out[i].cosineSimilarity > out[i + 1].cosineSimilarity
                  \/ /\ out[i].cosineSimilarity = out[i + 1].cosineSimilarity
                     /\ out[i].matchScore > out[i + 1].matchScore
                  \/ /\ out[i].cosineSimilarity = out[i + 1].cosineSimilarity
                     /\ out[i].matchScore = out[i + 1].matchScore
                     /\ out[i].totalSkills >= out[i + 1].totalSkills

\* C17 witness: two candidates of equal similarity came out in the reverse
\* of their input order because the second has the higher matchScore, and
\* a third candidate was cut by topN or minScore.
C17_Witness ==
    /\ rankResult # None
    /\ Len(Val(rankResult)) = 2
    /\ Len(Val(rankArgs).users) = 3
    /\ Val(rankResult)[1].cosineSimilarity = Val(rankResult)[2].cosineSimilarity
    /\ Val(rankResult)[1].matchScore > Val(rankResult)[2].matchScore
    /\ Val(rankArgs).users[1].userId = Val(rankResult)[2].userId
    /\ Val(rankArgs).users[2].userId = Val(rankResult)[1].userId

\* C19: in every ScoredMatch of rankUsersBySkills, matchedSkills lists, in
\* the candidate's order and spelling, exactly the candidate's raw skills
\* whose normalised form is a normalised query skill, and matchScore is its
\* length.
C19_MatchedSkillsAreRawSkills ==
    rankResult # None =>
        \A i \in 1..Len(Val(rankResult)) :
            LET m     == Val(rankResult)[i]
                raw   == RankedCandidate(m).skills
                query == Val(rankArgs).querySkills
                hits  == { k \in 1..Len(raw) :
                             \E q \in 1..Len(query) :
                                 normaliseSkill(query[q]) = normaliseSkill(raw[k]) }
            IN  /\ Len(m.matchedSkills) = Cardinality(hits)
                /\ \A k \in hits :
                      m.matchedSkills[Cardinality({ h \in hits : h <= k })] = raw[k]
                /\ m.matchScore = Len(m.matchedSkills)

\* C19 witness: a candidate with skills TypeScript, react, React was matched
\* against the query react, TypeScript on all three, in its own spelling.
C19_Witness ==
    /\ rankResult # None
    /\ Val(rankArgs).querySkills = <<S_react, S_TypeScript>>
    /\ \E i \in 1..Len(Val(rankResult)) :
          /\ Val(rankResult)[i].userId = "C"
          /\ Val(rankResult)[i].matchedSkills = <<S_TypeScript, S_react, S_React>>
          /\ Val(rankResult)[i].matchScore = 3
    /\ \E i \in 1..Len(Val(rankResult)) :
          /\ Val(rankResult)[i].userId = "D"
          /\ Val(rankResult)[i].matchedSkills = <<S_React>>

\* the worked example: query React, Node.js against A then B, minScore 0.1, topN 3
ExampleArgs ==
    [ querySkills |-> <<S_React, S_NodeJs>>,
      users |-> << [ userId |-> "A", name |-> "A", skills |-> <<S_React, S_TypeScript>>,
                     availability |-> "available" ],
                   [ userId |-> "B", name |-> "B",
                     skills |-> <<S_React, S_NodeJs, S_MongoDB>>,
                     availability |-> "available" ] >>,
      topN |-> 3, minScore |-> 1000 ]

\* C20 (as claimed): the example returns B first with similarity 1.0 and A
\* second with similarity 0.5.
C20_ExampleAsClaimed ==
    (rankArgs = Some(ExampleArgs) /\ rankResult # None) =>
        /\ Len(Val(rankResult)) = 2
        /\ Val(rankResult)[1].userId = "B"
        /\ Val(rankResult)[1].cosineSimilarity = 10000
        /\ Val(rankResult)[2].userId = "A"
        /\ Val(rankResult)[2].cosineSimilarity = 5000

\* C20 (amended): the example returns B first with similarity 0.8165
\* (2 / (sqrt 2 * sqrt 3)) and A second with similarity 0.5.
C20_ExampleAsComputed ==
    (rankArgs = Some(ExampleArgs) /\ rankResult # None) =>
        /\ Len(Val(rankResult)) = 2
        /\ Val(rankResult)[1].userId = "B"
        /\ Val(rankResult)[1].cosineSimilarity = 8165
        /\ Val(rankResult)[1].matchScore = 2
        /\ Val(rankResult)[2].userId = "A"
        /\ Val(rankResult)[2].cosineSimilarity = 5000
        /\ Val(rankResult)[2].matchScore = 1

\* C20 witness: the example has been ranked
C20_Witness ==
    /\ rankArgs = Some(ExampleArgs)
    /\ rankResult # None
    /\ Len(Val(rankResult)) = 2

\* the calls of the rankUsersWithEmbeddings invocation under way or last made
RankingCalls == IF embedRank = None THEN {} ELSE Range(Val(embedRank).calls)

\* the provider requests of that invocation that have not been answered
RankingInFlight == { i \in RankingCalls : embedCalls[i].status = "inflight" }

\* the rankUsersWithEmbeddings invocation returned a match list
EmbedRanked == embedResult # None /\ Val(embedResult).ok

\* C12 (as claimed): at most 5 provider requests of one
\* rankUsersWithEmbeddings invocation are in flight at any moment, and each
\* returned match carries the similarity of the query's vector with the
\* vector produced for that candidate's own request.
C12_AtMostFiveInFlight ==
    /\ Cardinality(RankingInFlight) <= 5
    /\ EmbedRanked =>
          LET a     == Val(embedRank).args
              calls == Val(embedRank).calls
              out   == Val(embedResult).value
          IN  \A m \in 1..Len(out) : \A i \in 1..Len(a.users) :
                  a.users[i].userId = out[m].userId
                  => out[m].cosineSimilarity =
                        embeddingCosine(Val(embedCalls[calls[1]].vector),
                                        Val(embedCalls[calls[i + 1]].vector))

\* C13: the embedding cache never holds more than MAX_CACHE_SIZE entries,
\* and never two entries for one key, whatever the order in which the
\* provider answers the concurrent calls.
C13_CacheBounded ==
    /\ Len(embeddingCache) <= MAX_CACHE_SIZE
    /\ \A i \in 1..Len(embeddingCache) : \A j \in 1..Len(embeddingCache) :
          embeddingCache[i].key = embeddingCache[j].key => i = j

\* C13 witness: the cache is full, an answered call's entry has been
\* evicted, and other calls are still waiting for the provider.
C13_Witness ==
    /\ Len(embeddingCache) = MAX_CACHE_SIZE
    /\ \E i \in 1..Len(embedCalls) :
          embedCalls[i].status = "ok" /\ ~CacheHas(embeddingCache, embedCalls[i].key)
    /\ Cardinality({ i \in 1..Len(embedCalls) : embedCalls[i].status = "inflight" }) >= 2

\* C14: a step that removes a key from the cache removes exactly one, the
\* one inserted earliest among those present, and does so only to store an
\* entry in a full cache; a step that starts calls (cache hits among them)
\* leaves the cache as it is.
C14_EvictionIsFifo ==
    [][ LET old == CacheKeys(embeddingCache)
            new == CacheKeys(embeddingCache')
        IN  /\ Len(embedCalls') > Len(embedCalls) => embeddingCache' = embeddingCache
            /\ \/ new = old
               \/ /\ Len(old) < MAX_CACHE_SIZE
                  /\ new # <<>>
                  /\ SubSeq(new, 1, Len(new) - 1) = old
               \/ /\ Len(old) >= MAX_CACHE_SIZE
                  /\ \/ new = Tail(old)
                     \/ new # <<>> /\ SubSeq(new, 1, Len(new) - 1) = Tail(old) ]_vars

\* C14 witness: the cache is full, the call answered first has lost its
\* entry, and a later call was served from the cache.
C14_Witness ==
    /\ Len(embeddingCache) = MAX_CACHE_SIZE
    /\ \E i \in 1..Len(embedCalls) :
          /\ embedCalls[i].status = "ok"
          /\ ~CacheHas(embeddingCache, embedCalls[i].key)
    /\ \E i \in 1..Len(embedCalls) : embedCalls[i].status = "hit"

\* C15: when the provider has failed for a call of the ranking, the ranking
\* has failed with the error of such a call and returns no match list; the
\* failed call has no vector, and a key is in the cache only if the
\* provider answered a call for it.
C15_ProviderFailurePropagates ==
    /\ \A i \in RankingCalls :
          embedCalls[i].outcome = "error" =>
              /\ embedResult # None
              /\ ~Val(embedResult).ok
              /\ \E j \in RankingCalls :
                    /\ embedCalls[j].outcome = "error"
                    /\ Val(embedResult).error = <<"embedding request failed", j>>
              /\ embedCalls[i].vector = None
    /\ \A i \in 1..Len(embedCalls) :
          (embedCalls[i].outcome = "error"
           /\ CacheHas(embeddingCache, embedCalls[i].key))
          => \E j \in 1..Len(embedCalls) :
                /\ embedCalls[j].outcome = "ok"
                /\ embedCalls[j].key = embedCalls[i].key

\* C15 witness: the provider failed for a candidate after it had answered
\* for the query, and the ranking failed.
C15_Witness ==
    /\ embedResult # None
    /\ ~Val(embedResult).ok
    /\ embedCalls[Val(embedRank).calls[1]].outcome = "ok"
    /\ \E i \in RankingCalls :
          /\ i # Val(embedRank).calls[1]
          /\ embedCalls[i].outcome = "error"
          /\ ~CacheHas(embeddingCache, embedCalls[i].key)

\* how often x occurs in the list
Occurrences(list, x) == Cardinality({ i \in 1..Len(list) : list[i] = x })

\* two skill lists are equal after lowercasing, trimming and sorting
CanonEqual(a, b) ==
    LET la == [i \in 1..Len(a) |-> LowerTrim(a[i])]
        lb == [i \in 1..Len(b) |-> LowerTrim(b[i])]
    IN  /\ Len(la) = Len(lb)
        /\ \A x \in Range(la) \cup Range(lb) : Occurrences(la, x) = Occurrences(lb, x)

\* C16: a call for a non-empty skill list that starts when the cache holds
\* the entry of an answered call for a list equal to it after lowercasing,
\* trimming and sorting returns that cached vector, and the provider is
\* never asked on behalf of a call served from the cache.
C16_EqualListsShareEntry ==
    [][ /\ \A n \in (Len(embedCalls) + 1)..Len(embedCalls') :
              \A j \in 1..Len(embedCalls) :
                  ( /\ embedCalls[j].status = "ok"
                    /\ embedCalls'[n].skills # <<>>
                    /\ CanonEqual(embedCalls[j].skills, embedCalls'[n].skills)
                    /\ CacheHas(embeddingCache, embedCalls[j].key) )
                  => /\ embedCalls'[n].status = "hit"
                     /\ embedCalls'[n].vector =
                           Some(CacheGet(embeddingCache, embedCalls[j].key))
        /\ \A i \in 1..Len(embedCalls) :
              embedCalls[i].status = "hit"
              => embedCalls'[i].status = "hit" /\ embedCalls'[i].outcome = "none" ]_vars

\* C16 witness: the list (Vue, Go) was embedded, and a later call for
\* (GO, " vue") was served from the cache.
C16_Witness ==
    \E j \in 1..Len(embedCalls) : \E n \in 1..Len(embedCalls) :
        /\ j < n
        /\ embedCalls[j].status = "ok"
        /\ embedCalls[j].skills = <<S_Vue, S_Go>>
        /\ embedCalls[n].skills = <<S_GO, S_vueSp>>
        /\ embedCalls[n].status = "hit"
        /\ embedCalls[n].vector = embedCalls[j].vector

\* C18 (as claimed): the output of rankUsersWithEmbeddings holds only
\* scores >= minScore, is no longer than topN, and is sorted non-increasing
\* lexicographically by (cosineSimilarity, matchScore, totalSkills).
C18_EmbeddingRankContract ==
    EmbedRanked =>
        LET a   == Val(embedRank).args
            out == Val(embedResult).value
        IN  /\ Len(out) <= a.topN
            /\ \A i \in 1..Len(out) : out[i].cosineSimilarity >= a.minScore
            /\ \A i \in 1..(Len(out) - 1) :
                  \/ out[i].cosineSimilarity > out[i + 1].cosineSimilarity
                  \/ /\ out[i].cosineSimilarity = out[i + 1].cosineSimilarity
                     /\ out[i].matchScore > out[i + 1].matchScore
                  \/ /\ out[i].cosineSimilarity = out[i + 1].cosineSimilarity
                     /\ out[i].matchScore = out[i + 1].matchScore
                     /\ out[i].totalSkills >= out[i + 1].totalSkills
\* the call made on its own is a call of this tool
DirectCallOf(tool) == directCall # None /\ Val(directCall).tool = tool

\* the rankers the call has invoked
RankerInvocations ==
    { n \in 1..Len(directTrace) :
        directTrace[n].op \in {"rankUsersBySkills", "rankUsersWithEmbeddings"} }

\* the skills property is missing or is the empty list
SkillsMissingOrEmpty(input) == "skills" \notin DOMAIN input \/ input.skills = <<>>

\* C21: matchUsersBySkills called without skills or with an empty list
\* fails with the input error and queries nothing; when Stage 1 answers
\* with no candidate it returns matches = [] and totalFound = 0 as a
\* success and invokes no ranker (hence no embedding provider), also when
\* embeddings are asked for and the API key is set.
C21_InputErrorAndEmptyResult ==
    DirectCallOf("match_users_by_skills") =>
        LET input == Val(directCall).input
        IN  /\ SkillsMissingOrEmpty(input) =>
                 /\ directTrace = <<>>
                 /\ directPc \in {"start", "done"}
                 /\ directResult # None =>
                       Val(directResult) =
                           Throw("match_users_by_skills requires at least one skill")
            /\ (~SkillsMissingOrEmpty(input) /\ Stage1(input) = <<>>) =>
                 /\ RankerInvocations = {}
                 /\ directPc # "m_embed"
                 /\ (directResult # None /\ Val(directResult) # Throw(StorageError)) =>
                       /\ Val(directResult).ok
                       /\ Val(directResult).value.matches = <<>>
                       /\ Val(directResult).value.totalFound = 0

\* C21 witness: a call asking for embeddings, with the API key set, whose
\* Stage 1 query was sent and found nobody, has returned
C21_Witness ==
    /\ DirectCallOf("match_users_by_skills")
    /\ UsesEmbeddings(Val(directCall))
    /\ ~SkillsMissingOrEmpty(Val(directCall).input)
    /\ Stage1(Val(directCall).input) = <<>>
    /\ Len(directTrace) = 1 /\ directTrace[1].op = "User.find"
    /\ directResult # None /\ Val(directResult).ok

\* C22 (as claimed): match_users_by_skills is only ever entered with 1 to
\* 10 skills and a limit of at most 10, and a rule-based invocation whose
\* message yields more than 10 skills ends in a failure.
C22_OversizedInputRejected ==
    /\ \A j \in 1..Len(execLog) :
          execLog[j].tool = MatchTool =>
              /\ Len(execLog[j].input.skills) \in 1..10
              /\ execLog[j].input.limit <= 10
    /\ ( /\ agent = "bounded"
         /\ ~Truthy(req.approvedMessageTo)
         /\ Len(extractSkillsFromMessage(req.message)) > 10
         /\ response # None )
       => ~Val(response).success

\* only a-z, 0-9 and single spaces, none of them first or last
NormalForm(str) ==
    /\ \A i \in 1..Len(str) :
          str[i] \in Range(LowerChars) \cup DigitChars \cup {" "}
    /\ str # <<>> => (str[1] # " " /\ str[Len(str)] # " ")
    /\ \A i \in 1..(Len(str) - 1) : ~(str[i] = " " /\ str[i + 1] = " ")

\* C23: normaliseSkill applied to its own result returns that result, and
\* every result holds only a-z, 0-9 and single interior spaces.
C23_NormaliseIdempotent ==
    /\ \A k \in 1..Len(normOutput) : NormalForm(normOutput[k])
    /\ Len(normOutput) = 2 => normOutput[2] = normOutput[1]

\* C23 witness: a string with a capital, punctuation between whitespace
\* and a tab was normalised twice, and the result has an interior space
C23_Witness ==
    /\ normInput # None
    /\ Len(normOutput) = 2
    /\ \E i \in 1..(Len(Val(normInput)) - 2) :
          /\ Val(normInput)[i] \in {" ", "\t"}
          /\ Val(normInput)[i + 1] = "."
          /\ Val(normInput)[i + 2] = "\t"
    /\ "R" \in Range(Val(normInput))
    /\ " " \in Range(normOutput[1])

\* the score 0, as cosineSimilarity returns it
ZeroScore == [dot |-> 0, den2 |-> 1]

\* no skill of the list survives normaliseSkill (the empty list included)
NormalisesToNothing(skills) ==
    \A k \in 1..Len(skills) : normaliseSkill(skills[k]) = <<>>

\* C24: cosineSimilarity is exactly 0 when either argument is the all-zero
\* vector, for the vectors of the call and for small vectors of any
\* entries; a candidate whose skills are empty or normalise to nothing is
\* encoded as the zero vector, is scored 0 and is not returned under a
\* positive minScore.
C24_ZeroVectorScoresZero ==
    rankArgs # None =>
        LET a     == Val(rankArgs)
            vocab == buildVocabulary(<<a.querySkills>> \o
                                     [i \in 1..Len(a.users) |-> a.users[i].skills])
            zero  == [i \in 1..Len(vocab) |-> 0]
            queryVec == encodeVector(a.querySkills, vocab)
        IN  /\ \A v \in [1..2 -> 0..2] :
                  /\ cosineSimilarity(<<0, 0>>, v) = ZeroScore
                  /\ cosineSimilarity(v, <<0, 0>>) = ZeroScore
            /\ \A i \in 1..Len(a.users) :
                  LET userVec == encodeVector(a.users[i].skills, vocab)
                  IN  /\ cosineSimilarity(zero, userVec) = ZeroScore
                      /\ cosineSimilarity(userVec, zero) = ZeroScore
                      /\ NormalisesToNothing(a.users[i].skills) =>
                            /\ userVec = zero
                            /\ ToFixed4(cosineSimilarity(queryVec, userVec)) = 0
            /\ rankResult # None =>
                  \A k \in 1..Len(Val(rankResult)) :
                      LET m == Val(rankResult)[k]
                      IN  NormalisesToNothing(m.skills) =>
                             /\ m.cosineSimilarity = 0
                             /\ a.minScore <= 0

\* C24 witness: with minScore 0 a candidate without skills and one whose
\* only skill normalises to nothing were both returned with similarity 0
C24_Witness ==
    /\ rankResult # None
    /\ Val(rankArgs).minScore = 0
    /\ \E i \in 1..Len(Val(rankResult)) : \E j \in 1..Len(Val(rankResult)) :
          /\ Val(rankResult)[i].skills = <<>>
          /\ Val(rankResult)[j].skills = <<S_Bang>>
          /\ Val(rankResult)[i].cosineSimilarity = 0
          /\ Val(rankResult)[j].cosineSimilarity = 0

\* C25 (as claimed): draftIntroMessage returns a draft only when the
\* sender id, the recipient id and a supplied projectId all resolve in
\* storage; otherwise it fails and returns no draft.
C25_DraftNeedsAllIdsResolved ==
    ( /\ DirectCallOf("draft_intro_message")
      /\ directResult # None
      /\ Val(directResult).ok )
    => LET input == Val(directCall).input
       IN  /\ FindUserById(StrField(input, "fromUserId")) # None
           /\ FindUserById(StrField(input, "toUserId")) # None
           /\ Truthy(StrField(input, "projectId")) =>
                 FindProjectById(input.projectId) # None

\* the user ids of a list of matches
MatchIds(matches) == { matches[k].userId : k \in 1..Len(matches) }

\* C26: every match_users_by_skills call of either agent excludes the
\* requester, the requester's id is in no list of matches the invocation
\* holds or returns, and runOpenAIAgent never drafts to the requester.
C26_RequesterNeverMatched ==
    agent \in {"bounded", "openai"} =>
        /\ \A j \in 1..Len(execLog) :
              /\ execLog[j].tool = MatchTool =>
                    execLog[j].input.excludeUserId = req.userId
              /\ (agent = "openai" /\ execLog[j].tool = DraftTool) =>
                    execLog[j].input.toUserId # req.userId
        /\ \A i \in 1..Len(toolCallLog) :
              toolCallLog[i].tool = MatchTool =>
                  req.userId \notin MatchIds(toolCallLog[i].output.matches)
        /\ req.userId \notin MatchIds(confirmedMatches)
        /\ finalMatches # None => req.userId \notin MatchIds(Val(finalMatches))
        /\ response # None =>
              /\ (agent = "bounded" /\ Has(Val(response), "matches")) =>
                    req.userId \notin MatchIds(Val(response).matches)
              /\ (agent = "openai" /\ Val(response).matches # None) =>
                    req.userId \notin MatchIds(Val(Val(response).matches))

\* C26 witness: the requester is a stored user with a searched skill, the
\* match returned other users, and the model's draft to the requester was
\* refused by the guard
C26_Witness ==
    /\ agent = "openai"
    /\ response # None
    /\ Val(response).matches # None
    /\ Val(Val(response).matches) # <<>>
    /\ \E j \in 1..Len(execLog) :
          /\ execLog[j].tool = MatchTool
          /\ \E u \in Range(UsersCollection) :
                /\ u.userId = req.userId
                /\ \E i \in 1..Len(u.skills) :
                      RegExpTestI(execLog[j].input.skills[1], u.skills[i])
    /\ \E i \in 1..Len(dispatchLog) :
          /\ dispatchLog[i].name = DraftTool
          /\ StrField(dispatchLog[i].args, "to_user_id") = req.userId
          /\ dispatchLog[i].error # None
          /\ dispatchLog[i].confirmedIds # {}

\* the tool message answering call id carries a tool result, not an error
ToolResultReported(id) ==
    \E n \in 1..Len(messages) :
        /\ messages[n].role = "tool"
        /\ messages[n].tool_call_id = id
        /\ "result" \in DOMAIN messages[n].content

\* C27: a response of runOpenAIAgent with a draftMessage has
\* toolCallsMade = 2; the first call dispatched was match_users_by_skills
\* and returned a result, the second was the draft, and the draft's
\* recipientId is the userId of one of the response's matches.
C27_DraftImpliesMatchThenDraft ==
    ( /\ agent = "openai"
      /\ response # None
      /\ Val(response).draftMessage # None )
    => LET r == Val(response)
       IN  /\ r.toolCallsMade = 2
           /\ Len(dispatchLog) = 2
           /\ dispatchLog[1].name = MatchTool
           /\ dispatchLog[1].error = None
           /\ ToolResultReported(dispatchLog[1].callId)
           /\ dispatchLog[2].name = DraftTool
           /\ ToolResultReported(dispatchLog[2].callId)
           /\ r.matches # None
           /\ Val(r.draftMessage).recipientId \in MatchIds(Val(r.matches))

\* C27 witness: a response with a draft, whose match and draft were asked
\* for in two different model turns
C27_Witness ==
    /\ agent = "openai"
    /\ response # None
    /\ Val(response).draftMessage # None
    /\ Len(dispatchLog) = 2
    /\ dispatchLog[1].turn = 0
    /\ dispatchLog[2].turn = 1

\* what the invocation at hand returns when the summary content is c
ResponseFor(c) ==
    SummaryResponse(safeParseJSON(IF c = None THEN ArgsText(EmptyObject) ELSE c,
                                  EmptyObject))

\* C28 (as claimed): when the summary completion is answered, the response
\* the same invocation -- same tool calls, same tool results -- would give
\* for any other summary content has the same toolCallsMade, matches and
\* draftMessage.
C28_SummaryCannotSetToolFields ==
    [][ ( /\ agent = "openai"
          /\ pc = "await_summary"
          /\ response' # None
          /\ Has(completionLog'[Len(completionLog')], "content") )
        => \A c \in SummaryContents :
              /\ ResponseFor(c).toolCallsMade = Val(response').toolCallsMade
              /\ ResponseFor(c).matches = Val(response').matches
              /\ ResponseFor(c).draftMessage = Val(response').draftMessage ]_vars

\* what the tool of a log record returns for the record's input
ToolOutputFor(record) ==
    IF record.tool = MatchTool
    THEN matchUsersBySkills(record.input, TRUE)
    ELSE draftIntroMessage(record.input, TRUE)

\* C29, the state part: the log has one record per tool call that returned,
\* in the order the calls were made, with the call's input and output;
\* its length is at most toolCallsMade, which is at most 2; the output
\* carries the log as it stands, of length toolCallsMade on success.
BoundedLogAccountsForCalls ==
    agent = "bounded" =>
        /\ Len(toolCallLog) <= toolCallsMade
        /\ toolCallsMade <= 2
        /\ Len(toolCallLog) = Len(execLog) - Len(pending)
              \/ (response # None /\ ~Val(response).success)
        /\ \A i \in 1..Len(toolCallLog) :
              /\ toolCallLog[i].tool = execLog[i].tool
              /\ toolCallLog[i].input = execLog[i].input
              /\ ToolOutputFor(toolCallLog[i]).ok
              /\ toolCallLog[i].output = ToolOutputFor(toolCallLog[i]).value
        /\ response # None =>
              LET r == Val(response)
              IN  /\ r.toolCallLog = toolCallLog
                  /\ Len(r.toolCallLog) <= r.toolCallsMade
                  /\ r.toolCallsMade <= 2
                  /\ r.success => Len(r.toolCallLog) = r.toolCallsMade

\* C29, the step part: a step only appends to the log and leaves a
\* returned output as it is.
BoundedLogOnlyGrows ==
    agent = "bounded" =>
        /\ Len(toolCallLog') >= Len(toolCallLog)
        /\ SubSeq(toolCallLog', 1, Len(toolCallLog)) = toolCallLog
        /\ response # None => response' = response

\* C29: in runBoundedAgent toolCallLog holds exactly one record, in
\* dispatch order, for each tool call that completed successfully, so
\* toolCallLog.length <= toolCallsMade <= 2 with equality on success, and
\* records are only appended, never modified or removed.
C29_ToolCallLogAppendOnly ==
    /\ []BoundedLogAccountsForCalls
    /\ [][BoundedLogOnlyGrows]_vars

\* C29 witness: a match that found users was logged and returned
C29_Witness ==
    /\ agent = "bounded"
    /\ response # None
    /\ Val(response).success
    /\ Val(response).toolCallsMade = 1
    /\ Len(Val(response).toolCallLog) = 1
    /\ Val(response).toolCallLog[1].tool = MatchTool
    /\ Val(response).toolCallLog[1].output.matches # <<>>

\* C30 (as claimed): no exception leaves an invocation of either agent,
\* whatever the model answers, whichever tool fails and whether or not the
\* API key is set; a finished invocation has returned a response, and a
\* failure response has no draft and does not await approval.
C30_NeverThrowsToCaller ==
    agent \in {"bounded", "openai"} =>
        /\ escaped = None
        /\ Finished => response # None
        /\ (response # None /\ ~Val(response).success) =>
              /\ Has(Val(response), "draftMessage") =>
                    Val(response).draftMessage = None
              /\ Val(response).awaitingApproval = FALSE

=============================================================================
